---- MODULE Spec2Model ----
(***************************************************************************)
(* Canvas (src/Gimp/src/canvas.rs) and History (src/Gimp/src/history.rs)   *)
(* of MyGimp as a state machine.                                           *)
(*                                                                         *)
(* Buffers are byte sequences, exactly as the Vec<u8> of the source, but   *)
(* indexed from 1: the byte the source calls buf[k] is buf[k + 1] here.    *)
(* Option<T> is a sequence of length 0 (None) or 1 (Some).                 *)
(* zoom_scale (an f32) is the exact fraction <<num, den>>; the model only  *)
(* uses powers of two, for which the f32 division is exact.                *)
(***************************************************************************)
EXTENDS Integers, Sequences, FiniteSets, TLC

VARIABLES
    canvas,     \* the live Canvas
    states,     \* History.states
    current,    \* History.current
    op,         \* name of the last operation called
    ret,        \* value returned by the last undo / redo ("none" otherwise)
    branched,   \* the last call was a push and the call before it an undo that
                \* returned true
    linear,     \* TRUE while the calls so far are pushes (and canvas methods)
                \* followed by undo calls only
    log,        \* while linear: the snapshots pushed, in push order
    undoCalls,  \* while linear: the undo calls made, counted up to MAX_HISTORY + 1
    steps,      \* operations called so far, counted up to MaxSteps
    panicked,   \* TRUE once an operation indexed a Vec out of bounds
    args,       \* the arguments of the last call, where a claim speaks of them
    texture,    \* Gpu.texture: None as create_texture_resources leaves it,
                \* Some(buffer) once upload_canvas has written buffer to it
    painted,    \* calls counted against the bound of the specifications that
                \* exercise single Canvas methods (SpecBuffer and those after it)
    flood,      \* None, or Some(the locals of the flood_fill call in progress)
    folder      \* the project folder on disk: None while it does not exist, or
                \* Some([json |-> project.json, png |-> the layer_NNN.png files])

vars == <<canvas, states, current, op, ret, branched, linear, log, undoCalls, steps, panicked,
          args, texture, painted, flood, folder>>

-----------------------------------------------------------------------------
(* Program constants *)

MAX_HISTORY == 50

COPY_BYTES_PER_ROW_ALIGNMENT == 256

PANEL_WIDTH == 88

-----------------------------------------------------------------------------
(* Bounds of the model *)

\* operations per behaviour of Spec
MaxSteps == 3

\* the last shade a stroke of SpecCap paints; shades start at 0
MaxShade == 55

\* operations per behaviour of SpecGpu
MaxGpuSteps == 2

\* load_pixels calls and resizes per behaviour of SpecBuffer
MaxLoads == 2

\* Canvas calls per behaviour of SpecPaste and of SpecPaint
MaxPastes == 3

\* Canvas calls per behaviour of SpecStamp
MaxStamps == 2

\* Canvas calls per behaviour of SpecFill
MaxFills == 2

\* Canvas calls per behaviour of SpecLayer
MaxEdits == 3

\* Brush calls per behaviour of SpecStroke
MaxStrokes == 2

\* Canvas calls per behaviour of SpecFar
MaxFar == 2

\* Layers, and metadata entries, of a saved project
MaxLayers == 2

\* Calls on the project folder
MaxSaves == 3

-----------------------------------------------------------------------------
(* Helpers *)

None == <<>>

Some(x) == <<x>>

Min(a, b) == IF a <= b THEN a ELSE b

Max(a, b) == IF a >= b THEN a ELSE b

\* vec![v; n]
Fill(n, v) == [i \in 1..n |-> v]

\* buf[idx..idx + 4], idx counted from 0
Get4(buf, idx) == <<buf[idx + 1], buf[idx + 2], buf[idx + 3], buf[idx + 4]>>

\* buf[idx..idx + 4].copy_from_slice(&px), idx counted from 0; where buf ends
\* before idx + 4, the bytes it has
Put4(buf, idx, px) ==
    IF idx + 4 <= Len(buf)
    THEN SubSeq(buf, 1, idx) \o px \o SubSeq(buf, idx + 5, Len(buf))
    ELSE [i \in 1..Len(buf) |-> IF i > idx /\ i <= idx + 4 THEN px[i - idx] ELSE buf[i]]

WHITE == <<255, 255, 255, 255>>

-----------------------------------------------------------------------------
(* canvas.rs *)

\* aligned_stride adding a whole alignment before it rounds down
aligned_stride_adds_align(width) ==
    LET row == width * 4
        align == COPY_BYTES_PER_ROW_ALIGNMENT
    IN  ((row + align) \div align) * align

aligned_stride(width) ==
    LET row == width * 4
        align == COPY_BYTES_PER_ROW_ALIGNMENT
    IN  ((row + align - 1) \div align) * align

CanvasNew(width, height) ==
    LET stride == aligned_stride(width)
    IN  [ width |-> width,
          height |-> height,
          stride |-> stride,
          pixels |-> Fill(stride * height, 255),
          dirty |-> FALSE,
          loaded_image_size |-> None,
          loaded_image_data |-> None,
          zoom_scale |-> <<1, 1>>,
          drawing_layer |-> <<>>,
          pan_offset |-> <<0, 0>> ]

\* the pan offset taken off the canvas coordinate, before the division
ImgCoord_pans_canvas(c, zoom_scale, offset) ==
    ((c - offset) * zoom_scale[2]) \div zoom_scale[1]

\* ((c as f32 / zoom_scale) as i32) - offset, for a canvas coordinate c >= 0
ImgCoord(c, zoom_scale, offset) ==
    ((c * zoom_scale[2]) \div zoom_scale[1]) - offset

InImage(img_x, img_y, img_w, img_h) ==
    img_x >= 0 /\ img_x < img_w /\ img_y >= 0 /\ img_y < img_h

\* X / 2^d rounded to the nearest integer, a tie to the even one
RoundShift(X, d) ==
    LET q == X \div 2^d
        r == X % 2^d
    IN  IF 2 * r > 2^d \/ (2 * r = 2^d /\ q % 2 = 1) THEN q + 1 ELSE q

\* The f32 value of "a as f32 / 255.0" for a in 1..254, as <<m, e>>: the value
\* is m / 2^e, m the 24-bit mantissa. The quotient a * 2^e / 255 is taken in
\* two steps to stay within 32 bits; it is never half way (255 is odd).
AlphaF32(a) ==
    LET j == CHOOSE j \in 1..8 : a * 2^j >= 255 /\ a * 2^(j - 1) < 255
        g == 7 + j
        r1 == (a * 65536) % 255
        m == ((a * 65536) \div 255) * 2^g + (r1 * 2^g) \div 255
    IN  << IF 2 * ((r1 * 2^g) % 255) > 255 THEN m + 1 ELSE m, 23 + j >>

\* The f32 value of "1.0 - alpha" for alpha = <<m, e>>: the exact difference
\* (2^e - m) / 2^e, rounded to 24 bits
OneMinusF32(alpha) ==
    LET e == alpha[2]
        X == 2^(e - 1) + (2^(e - 1) - alpha[1])
        d == CHOOSE d \in 0..7 :
                 X \div 2^d < 16777216 /\ (d = 0 \/ X \div 2^(d - 1) >= 16777216)
    IN  <<RoundShift(X, d), e - d>>

\* The f32 value of "v as f32 * f" for a byte v and f = <<m, e>>: the exact
\* product v * m / 2^e rounded to 24 bits, again as <<mantissa, exponent>>.
\* m is split in a high part and its low 8 bits to stay within 32 bits.
TimesF32(v, f) ==
    LET mh == f[1] \div 256
        ml == f[1] % 256
        T == v * mh + (v * ml) \div 256
        low == (v * ml) % 256
        d == CHOOSE d \in 0..8 : T < 2^(16 + d) /\ (d = 0 \/ T >= 2^(15 + d))
        q == T * 2^(8 - d) + low \div 2^d
        r == low % 2^d
    IN  << IF 2 * r > 2^d \/ (2 * r = 2^d /\ q % 2 = 1) THEN q + 1 ELSE q, f[2] - d >>

\* <<whole part, fraction in units of 2^-31>> of t = <<m, e>>, 16 <= e <= 31
PartsF32(t) ==
    IF t[2] = 31 THEN <<0, t[1]>>
    ELSE <<t[1] \div 2^t[2], (t[1] % 2^t[2]) * 2^(31 - t[2])>>

\* The f32 sum of t1 and t2, each <<whole part, fraction in units of 2^-31>>:
\* the exact sum rounded to 24 significant bits, a tie to the even mantissa
AddF32(t1, t2) ==
    LET carry == t1[2] > 2147483647 - t2[2]
        I == t1[1] + t2[1] + (IF carry THEN 1 ELSE 0)
        F == IF carry THEN (t1[2] - (2147483647 - t2[2])) - 1 ELSE t1[2] + t2[2]
        k == IF I > 0 THEN 31 + (CHOOSE p \in 0..9 : 2^p <= I /\ I < 2^(p + 1))
             ELSE IF F > 0 THEN CHOOSE p \in 0..30 : 2^p <= F /\ (p = 30 \/ F < 2^(p + 1))
             ELSE 0
        U == IF k <= 23 THEN 1 ELSE 2^(k - 23)
        q == RoundShift(F, IF k <= 23 THEN 0 ELSE k - 23)
    IN  IF q > 2147483647 \div U THEN <<I + 1, 0>> ELSE <<I, q * U>>

\* (fg * alpha + bg * (1.0 - alpha)) as u8 with alpha = a as f32 / 255.0, as f32
\* arithmetic computes it: 1.0 - alpha, both products and their sum are each
\* rounded to 24 bits, and the sum is truncated. For a = 255 alpha is 1.0 and
\* the result is fg; for a = 0 it is bg.
CompositeChannel(fg, bg, a) ==
    IF a = 0 THEN bg
    ELSE IF a = 255 THEN fg
    ELSE
        LET alpha == AlphaF32(a)
        IN  Min(AddF32(PartsF32(TimesF32(fg, alpha)),
                       PartsF32(TimesF32(bg, OneMinusF32(alpha))))[1], 255)

\* (src * a + dst * (1.0 - a)).round() as u8, a = alpha / 255: the exact quotient,
\* rounded (it is never half way between two integers, 255 being odd)
BlendChannel(src, dst, alpha) == (2 * (src * alpha + dst * (255 - alpha)) + 255) \div 510

\* The loops "for canvas_y in 0..height { for canvas_x in 0..width { .. } }"
\* that write only the four bytes of the pixel they visit: F(x, y) is the
\* value the body leaves in pixel (x, y); bytes of the row padding are kept.
ForEachCanvasPixel(c, pixels, F(_, _)) ==
    [i \in 1..Len(pixels) |->
        LET k == i - 1
            y == k \div c.stride
            xb == k % c.stride
            x == xb \div 4
            canvas_idx == y * c.stride + x * 4
        IN  IF y < c.height /\ x < c.width /\ canvas_idx + 4 <= Len(pixels)
            THEN F(x, y)[(xb % 4) + 1]
            ELSE pixels[i]]

\* composite_layers looking the strokes up as if zoom_scale were 1.0
composite_layers_unzoomed(c) ==
    IF c.loaded_image_size = None THEN c
    ELSE
        LET img_w == c.loaded_image_size[1][1]
            img_h == c.loaded_image_size[1][2]
            img_stride == img_w * 4
            Body(canvas_x, canvas_y) ==
                LET img_x == canvas_x - c.pan_offset[1]
                    img_y == canvas_y - c.pan_offset[2]
                    img_idx == img_y * img_stride + img_x * 4
                    canvas_idx == canvas_y * c.stride + canvas_x * 4
                    old == Get4(c.pixels, canvas_idx)
                IN  IF /\ InImage(img_x, img_y, img_w, img_h)
                       /\ img_idx + 3 < Len(c.drawing_layer)
                       /\ canvas_idx + 3 < Len(c.pixels)
                       /\ c.drawing_layer[img_idx + 4] > 0
                    THEN LET a == c.drawing_layer[img_idx + 4]
                         IN  << CompositeChannel(c.drawing_layer[img_idx + 1], old[1], a),
                                CompositeChannel(c.drawing_layer[img_idx + 2], old[2], a),
                                CompositeChannel(c.drawing_layer[img_idx + 3], old[3], a),
                                old[4] >>
                    ELSE old
        IN  [c EXCEPT !.pixels = ForEachCanvasPixel(c, c.pixels, Body)]

composite_layers(c) ==
    IF c.loaded_image_size = None THEN c
    ELSE
        LET img_w == c.loaded_image_size[1][1]
            img_h == c.loaded_image_size[1][2]
            img_stride == img_w * 4
            Body(canvas_x, canvas_y) ==
                LET img_x == ImgCoord(canvas_x, c.zoom_scale, c.pan_offset[1])
                    img_y == ImgCoord(canvas_y, c.zoom_scale, c.pan_offset[2])
                    img_idx == img_y * img_stride + img_x * 4
                    canvas_idx == canvas_y * c.stride + canvas_x * 4
                    old == Get4(c.pixels, canvas_idx)
                IN  IF /\ InImage(img_x, img_y, img_w, img_h)
                       /\ img_idx + 3 < Len(c.drawing_layer)
                       /\ canvas_idx + 3 < Len(c.pixels)
                       /\ c.drawing_layer[img_idx + 4] > 0
                    THEN LET a == c.drawing_layer[img_idx + 4]
                         IN  << CompositeChannel(c.drawing_layer[img_idx + 1], old[1], a),
                                CompositeChannel(c.drawing_layer[img_idx + 2], old[2], a),
                                CompositeChannel(c.drawing_layer[img_idx + 3], old[3], a),
                                old[4] >>
                    ELSE old
        IN  [c EXCEPT !.pixels = ForEachCanvasPixel(c, c.pixels, Body)]

\* paste_image_with_offset taking every image for a new one
paste_always_new(c, img_width, img_height, img_pixels, offset_x, offset_y) ==
    LET img_stride == img_width * 4
        Body(canvas_x, canvas_y) ==
            LET img_x == ImgCoord(canvas_x, c.zoom_scale, offset_x)
                img_y == ImgCoord(canvas_y, c.zoom_scale, offset_y)
                img_idx == img_y * img_stride + img_x * 4
                canvas_idx == canvas_y * c.stride + canvas_x * 4
            IN  IF InImage(img_x, img_y, img_width, img_height)
                THEN IF img_idx + 4 <= Len(img_pixels)
                     THEN Get4(img_pixels, img_idx)
                     ELSE Get4(c.pixels, canvas_idx)
                ELSE WHITE
        c1 == [c EXCEPT
                 !.loaded_image_size = Some(<<img_width, img_height>>),
                 !.loaded_image_data = Some(img_pixels),
                 !.pan_offset = <<offset_x, offset_y>>,
                 !.drawing_layer = Fill(img_width * img_height * 4, 0),
                 !.pixels = ForEachCanvasPixel(c, c.pixels, Body)]
    IN  [composite_layers(c1) EXCEPT !.dirty = TRUE]

paste_image_with_offset(c, img_width, img_height, img_pixels, offset_x, offset_y) ==
    LET is_new_image == c.loaded_image_size # Some(<<img_width, img_height>>)
        img_stride == img_width * 4
        Body(canvas_x, canvas_y) ==
            LET img_x == ImgCoord(canvas_x, c.zoom_scale, offset_x)
                img_y == ImgCoord(canvas_y, c.zoom_scale, offset_y)
                img_idx == img_y * img_stride + img_x * 4
                canvas_idx == canvas_y * c.stride + canvas_x * 4
            IN  IF InImage(img_x, img_y, img_width, img_height)
                THEN IF img_idx + 4 <= Len(img_pixels)
                     THEN Get4(img_pixels, img_idx)
                     ELSE Get4(c.pixels, canvas_idx)
                ELSE WHITE
        c1 == [c EXCEPT
                 !.loaded_image_size = Some(<<img_width, img_height>>),
                 !.loaded_image_data = Some(img_pixels),
                 !.pan_offset = <<offset_x, offset_y>>,
                 !.drawing_layer = IF is_new_image
                                   THEN Fill(img_width * img_height * 4, 0)
                                   ELSE @,
                 !.pixels = ForEachCanvasPixel(c, c.pixels, Body)]
    IN  [composite_layers(c1) EXCEPT !.dirty = TRUE]

repan_image(c, offset_x, offset_y) ==
    IF c.loaded_image_size # None /\ c.loaded_image_data # None
    THEN paste_image_with_offset(c, c.loaded_image_size[1][1], c.loaded_image_size[1][2],
                                 c.loaded_image_data[1], offset_x, offset_y)
    ELSE c

\* set_pixel without "self.dirty = true"
set_pixel_keeps_dirty(c, x, y, color) ==
    IF x >= c.width \/ y >= c.height THEN c
    ELSE [c EXCEPT !.pixels = Put4(@, y * c.stride + x * 4, color)]

set_pixel(c, x, y, color) ==
    IF x >= c.width \/ y >= c.height THEN c
    ELSE [c EXCEPT !.pixels = Put4(@, y * c.stride + x * 4, color), !.dirty = TRUE]

\* set_pixel slices pixels[idx..idx + 4] without a length check
set_pixel_panics(c, x, y) ==
    /\ x < c.width
    /\ y < c.height
    /\ y * c.stride + x * 4 + 4 > Len(c.pixels)

\* blend_pixel without the upper bounds of the image: a coordinate past the
\* end of a row lands in the next row of the drawing layer
blend_pixel_wraps_rows(c, x, y, color) ==
    IF x >= c.width \/ y >= c.height THEN c
    ELSE
        LET Blend(dst) == [i \in 1..4 |-> BlendChannel(color[i], dst[i], color[4])]
            img_w == c.loaded_image_size[1][1]
            img_x == ImgCoord(x, c.zoom_scale, c.pan_offset[1])
            img_y == ImgCoord(y, c.zoom_scale, c.pan_offset[2])
            img_idx == img_y * (img_w * 4) + img_x * 4
            idx == y * c.stride + x * 4
        IN  [c EXCEPT
              !.drawing_layer =
                  IF /\ c.loaded_image_size # None
                     /\ img_x >= 0
                     /\ img_y >= 0
                     /\ img_idx + 4 <= Len(@)
                  THEN Put4(@, img_idx, Blend(Get4(@, img_idx)))
                  ELSE @,
              !.pixels = IF idx + 4 <= Len(@) THEN Put4(@, idx, Blend(Get4(@, idx))) ELSE @,
              !.dirty = TRUE]

blend_pixel(c, x, y, color) ==
    IF x >= c.width \/ y >= c.height THEN c
    ELSE
        LET Blend(dst) == [i \in 1..4 |-> BlendChannel(color[i], dst[i], color[4])]
            img_w == c.loaded_image_size[1][1]
            img_h == c.loaded_image_size[1][2]
            img_x == ImgCoord(x, c.zoom_scale, c.pan_offset[1])
            img_y == ImgCoord(y, c.zoom_scale, c.pan_offset[2])
            img_idx == img_y * (img_w * 4) + img_x * 4
            idx == y * c.stride + x * 4
        IN  [c EXCEPT
              !.drawing_layer =
                  IF /\ c.loaded_image_size # None
                     /\ InImage(img_x, img_y, img_w, img_h)
                     /\ img_idx + 4 <= Len(@)
                  THEN Put4(@, img_idx, Blend(Get4(@, img_idx)))
                  ELSE @,
              !.pixels = IF idx + 4 <= Len(@) THEN Put4(@, idx, Blend(Get4(@, idx))) ELSE @,
              !.dirty = TRUE]

\* The pixels stamp_circle and erase_circle visit. Centre and radius are given
\* in half pixels (cx = cx2 / 2, cy = cy2 / 2, radius = r2 / 2), so that
\* dx * dx + dy * dy <= radius * radius is compared on integers, times four.
Disc(c, cx2, cy2, r2) ==
    LET min_x == Max((cx2 - r2) \div 2, 0)
        max_x == Min(-((-(cx2 + r2)) \div 2), c.width - 1)
        min_y == Max((cy2 - r2) \div 2, 0)
        max_y == Min(-((-(cy2 + r2)) \div 2), c.height - 1)
    IN  { p \in (min_x..max_x) \X (min_y..max_y) :
            (2 * p[1] + 1 - cx2) * (2 * p[1] + 1 - cx2)
              + (2 * p[2] + 1 - cy2) * (2 * p[2] + 1 - cy2) <= r2 * r2 }

erase_circle(c, cx2, cy2, r2) ==
    IF r2 <= 0 THEN c
    ELSE
        LET disc == Disc(c, cx2, cy2, r2)
            has_image == c.loaded_image_size # None
            img_w == c.loaded_image_size[1][1]
            img_h == c.loaded_image_size[1][2]
            ImgX(p) == ImgCoord(p[1], c.zoom_scale, c.pan_offset[1])
            ImgY(p) == ImgCoord(p[2], c.zoom_scale, c.pan_offset[2])
            ImgIdx(p) == ImgY(p) * (img_w * 4) + ImgX(p) * 4
            Erased(i) ==
                /\ has_image
                /\ \E p \in disc :
                      /\ InImage(ImgX(p), ImgY(p), img_w, img_h)
                      /\ ImgIdx(p) + 4 <= Len(c.drawing_layer)
                      /\ i > ImgIdx(p)
                      /\ i <= ImgIdx(p) + 4
            Body(x, y) ==
                LET p == <<x, y>>
                    old == Get4(c.pixels, y * c.stride + x * 4)
                IN  IF p \notin disc THEN old
                    ELSE IF ~has_image THEN WHITE
                    ELSE IF c.loaded_image_data = None THEN old
                    ELSE IF ~InImage(ImgX(p), ImgY(p), img_w, img_h) THEN WHITE
                    ELSE IF ImgIdx(p) + 4 <= Len(c.loaded_image_data[1])
                         THEN Get4(c.loaded_image_data[1], ImgIdx(p))
                         ELSE old
        IN  [c EXCEPT
              !.drawing_layer = [i \in 1..Len(@) |-> IF Erased(i) THEN 0 ELSE @[i]],
              !.pixels = ForEachCanvasPixel(c, @, Body),
              !.dirty = TRUE]

\* The "while let Some((x, y)) = stack.pop()" loop of flood_fill; the top of the
\* stack is the last element. The result is <<pixels, drawing_layer>>.
RECURSIVE FloodLoop(_, _, _, _, _, _, _)
FloodLoop(c, target_color, fill_color, stack, visited, pixels, layer) ==
    IF stack = <<>> THEN <<pixels, layer>>
    ELSE
        LET x == stack[Len(stack)][1]
            y == stack[Len(stack)][2]
            rest == SubSeq(stack, 1, Len(stack) - 1)
            visit_idx == y * c.width + x
            pixel_idx == y * c.stride + x * 4
        IN  IF x >= c.width \/ y >= c.height
            THEN FloodLoop(c, target_color, fill_color, rest, visited, pixels, layer)
            ELSE IF visit_idx \in visited
            THEN FloodLoop(c, target_color, fill_color, rest, visited, pixels, layer)
            ELSE IF pixel_idx + 4 > Len(pixels)
            THEN FloodLoop(c, target_color, fill_color, rest, visited \cup {visit_idx}, pixels, layer)
            ELSE IF Get4(pixels, pixel_idx) # target_color
            THEN FloodLoop(c, target_color, fill_color, rest, visited \cup {visit_idx}, pixels, layer)
            ELSE
                LET img_w == c.loaded_image_size[1][1]
                    img_h == c.loaded_image_size[1][2]
                    img_x == ImgCoord(x, c.zoom_scale, c.pan_offset[1])
                    img_y == ImgCoord(y, c.zoom_scale, c.pan_offset[2])
                    img_idx == img_y * (img_w * 4) + img_x * 4
                    layer1 == IF /\ c.loaded_image_size # None
                                 /\ InImage(img_x, img_y, img_w, img_h)
                                 /\ img_idx + 4 <= Len(layer)
                              THEN Put4(layer, img_idx, fill_color)
                              ELSE layer
                    s1 == IF x > 0 THEN Append(rest, <<x - 1, y>>) ELSE rest
                    s2 == IF x + 1 < c.width THEN Append(s1, <<x + 1, y>>) ELSE s1
                    s3 == IF y > 0 THEN Append(s2, <<x, y - 1>>) ELSE s2
                    s4 == IF y + 1 < c.height THEN Append(s3, <<x, y + 1>>) ELSE s3
                IN  FloodLoop(c, target_color, fill_color, s4, visited \cup {visit_idx},
                              Put4(pixels, pixel_idx, fill_color), layer1)

flood_fill(c, start_x, start_y, fill_color) ==
    LET idx == start_y * c.stride + start_x * 4
    IN  IF start_x >= c.width \/ start_y >= c.height THEN c
        ELSE IF idx + 4 > Len(c.pixels) THEN c
        ELSE IF Get4(c.pixels, idx) = fill_color THEN c
        ELSE
            LET done == FloodLoop(c, Get4(c.pixels, idx), fill_color,
                                  <<<<start_x, start_y>>>>, {}, c.pixels, c.drawing_layer)
            IN  [c EXCEPT !.pixels = done[1], !.drawing_layer = done[2], !.dirty = TRUE]

\* One iteration of the loop without "if visited[visit_idx] { continue; }"
FloodStep_revisits(c, f) ==
    LET x == f.stack[Len(f.stack)][1]
        y == f.stack[Len(f.stack)][2]
        rest == SubSeq(f.stack, 1, Len(f.stack) - 1)
        visit_idx == y * c.width + x
        pixel_idx == y * c.stride + x * 4
        popped == [f EXCEPT !.stack = rest, !.pops = @ + 1]
    IN  IF x >= c.width \/ y >= c.height THEN <<c, popped>>
        ELSE
            LET marked == [popped EXCEPT !.visited[visit_idx + 1] = TRUE,
                                         !.marks[visit_idx + 1] = @ + 1]
            IN  IF pixel_idx + 4 > Len(c.pixels) THEN <<c, marked>>
                ELSE IF Get4(c.pixels, pixel_idx) # f.target_color THEN <<c, marked>>
                ELSE
                    LET img_w == c.loaded_image_size[1][1]
                        img_h == c.loaded_image_size[1][2]
                        img_x == ImgCoord(x, c.zoom_scale, c.pan_offset[1])
                        img_y == ImgCoord(y, c.zoom_scale, c.pan_offset[2])
                        img_idx == img_y * (img_w * 4) + img_x * 4
                        s1 == IF x > 0 THEN Append(rest, <<x - 1, y>>) ELSE rest
                        s2 == IF x + 1 < c.width THEN Append(s1, <<x + 1, y>>) ELSE s1
                        s3 == IF y > 0 THEN Append(s2, <<x, y - 1>>) ELSE s2
                        s4 == IF y + 1 < c.height THEN Append(s3, <<x, y + 1>>) ELSE s3
                    IN  << [c EXCEPT
                              !.pixels = Put4(@, pixel_idx, f.fill_color),
                              !.drawing_layer =
                                  IF /\ c.loaded_image_size # None
                                     /\ InImage(img_x, img_y, img_w, img_h)
                                     /\ img_idx + 4 <= Len(@)
                                  THEN Put4(@, img_idx, f.fill_color)
                                  ELSE @],
                           [marked EXCEPT !.stack = s4] >>

\* One iteration of the "while let Some((x, y)) = stack.pop()" loop of
\* flood_fill, on the canvas c and the locals f of the call: <<c, f>> after it.
\* f.pops counts the iterations and f.marks[i] the times visited[i - 1] was set.
FloodStep(c, f) ==
    LET x == f.stack[Len(f.stack)][1]
        y == f.stack[Len(f.stack)][2]
        rest == SubSeq(f.stack, 1, Len(f.stack) - 1)
        visit_idx == y * c.width + x
        pixel_idx == y * c.stride + x * 4
        popped == [f EXCEPT !.stack = rest, !.pops = @ + 1]
    IN  IF x >= c.width \/ y >= c.height THEN <<c, popped>>
        ELSE IF f.visited[visit_idx + 1] THEN <<c, popped>>
        ELSE
            LET marked == [popped EXCEPT !.visited[visit_idx + 1] = TRUE,
                                         !.marks[visit_idx + 1] = @ + 1]
            IN  IF pixel_idx + 4 > Len(c.pixels) THEN <<c, marked>>
                ELSE IF Get4(c.pixels, pixel_idx) # f.target_color THEN <<c, marked>>
                ELSE
                    LET img_w == c.loaded_image_size[1][1]
                        img_h == c.loaded_image_size[1][2]
                        img_x == ImgCoord(x, c.zoom_scale, c.pan_offset[1])
                        img_y == ImgCoord(y, c.zoom_scale, c.pan_offset[2])
                        img_idx == img_y * (img_w * 4) + img_x * 4
                        s1 == IF x > 0 THEN Append(rest, <<x - 1, y>>) ELSE rest
                        s2 == IF x + 1 < c.width THEN Append(s1, <<x + 1, y>>) ELSE s1
                        s3 == IF y > 0 THEN Append(s2, <<x, y - 1>>) ELSE s2
                        s4 == IF y + 1 < c.height THEN Append(s3, <<x, y + 1>>) ELSE s3
                    IN  << [c EXCEPT
                              !.pixels = Put4(@, pixel_idx, f.fill_color),
                              !.drawing_layer =
                                  IF /\ c.loaded_image_size # None
                                     /\ InImage(img_x, img_y, img_w, img_h)
                                     /\ img_idx + 4 <= Len(@)
                                  THEN Put4(@, img_idx, f.fill_color)
                                  ELSE @],
                           [marked EXCEPT !.stack = s4] >>

\* The "Re-render" tail shared by move_layer and the filters
rerender(c) ==
    IF c.loaded_image_data # None
    THEN paste_image_with_offset(c, c.loaded_image_size[1][1], c.loaded_image_size[1][2],
                                 c.loaded_image_data[1], c.pan_offset[1], c.pan_offset[2])
    ELSE c

\* move_layer with new_layer starting as a copy of the layer, not as zeros
move_layer_keeps_source(c, offset_x, offset_y) ==
    IF c.loaded_image_size = None THEN [c EXCEPT !.dirty = TRUE]
    ELSE
        LET img_w == c.loaded_image_size[1][1]
            img_h == c.loaded_image_size[1][2]
            img_stride == img_w * 4
            len == Len(c.drawing_layer)
            NewByte(i) ==
                LET k == i - 1
                    new_y == k \div img_stride
                    new_x == (k % img_stride) \div 4
                    x == new_x - offset_x
                    y == new_y - offset_y
                    src_idx == y * img_stride + x * 4
                    dst_idx == new_y * img_stride + new_x * 4
                IN  IF /\ InImage(x, y, img_w, img_h)
                       /\ InImage(new_x, new_y, img_w, img_h)
                       /\ src_idx + 4 <= len
                       /\ dst_idx + 4 <= len
                    THEN c.drawing_layer[src_idx + (k % 4) + 1]
                    ELSE c.drawing_layer[i]
            c1 == [c EXCEPT !.drawing_layer = [i \in 1..len |-> NewByte(i)]]
        IN  [rerender(c1) EXCEPT !.dirty = TRUE]

move_layer(c, offset_x, offset_y) ==
    IF c.loaded_image_size = None THEN [c EXCEPT !.dirty = TRUE]
    ELSE
        LET img_w == c.loaded_image_size[1][1]
            img_h == c.loaded_image_size[1][2]
            img_stride == img_w * 4
            len == Len(c.drawing_layer)
            \* byte i of new_layer: written from the source pixel (x, y) whose
            \* translation (new_x, new_y) is the pixel that holds the byte
            NewByte(i) ==
                LET k == i - 1
                    new_y == k \div img_stride
                    new_x == (k % img_stride) \div 4
                    x == new_x - offset_x
                    y == new_y - offset_y
                    src_idx == y * img_stride + x * 4
                    dst_idx == new_y * img_stride + new_x * 4
                IN  IF /\ InImage(x, y, img_w, img_h)
                       /\ InImage(new_x, new_y, img_w, img_h)
                       /\ src_idx + 4 <= len
                       /\ dst_idx + 4 <= len
                    THEN c.drawing_layer[src_idx + (k % 4) + 1]
                    ELSE 0
            c1 == [c EXCEPT !.drawing_layer = [i \in 1..len |-> NewByte(i)]]
        IN  [rerender(c1) EXCEPT !.dirty = TRUE]

\* filter_invert without "if self.drawing_layer[idx + 3] > 0"
filter_invert_unmasked(c) ==
    IF c.loaded_image_size = None THEN [c EXCEPT !.dirty = TRUE]
    ELSE
        LET img_w == c.loaded_image_size[1][1]
            img_h == c.loaded_image_size[1][2]
            len == Len(c.drawing_layer)
            Inverted(i) ==
                LET k == i - 1
                    idx == (k \div 4) * 4
                IN  IF /\ idx < img_w * img_h * 4
                       /\ idx + 3 < len
                       /\ k % 4 < 3
                    THEN 255 - c.drawing_layer[i]
                    ELSE c.drawing_layer[i]
            c1 == [c EXCEPT !.drawing_layer = [i \in 1..len |-> Inverted(i)]]
        IN  [rerender(c1) EXCEPT !.dirty = TRUE]

filter_invert(c) ==
    IF c.loaded_image_size = None THEN [c EXCEPT !.dirty = TRUE]
    ELSE
        LET img_w == c.loaded_image_size[1][1]
            img_h == c.loaded_image_size[1][2]
            len == Len(c.drawing_layer)
            Inverted(i) ==
                LET k == i - 1
                    idx == (k \div 4) * 4
                IN  IF /\ idx < img_w * img_h * 4
                       /\ idx + 3 < len
                       /\ c.drawing_layer[idx + 4] > 0
                       /\ k % 4 < 3
                    THEN 255 - c.drawing_layer[i]
                    ELSE c.drawing_layer[i]
            c1 == [c EXCEPT !.drawing_layer = [i \in 1..len |-> Inverted(i)]]
        IN  [rerender(c1) EXCEPT !.dirty = TRUE]

\* (0.299 * r + 0.587 * g + 0.114 * b) as u8 in f32: the three constants are
\* the f32 values 10032775 / 2^25, 9848226 / 2^24 and 15300821 / 2^27; each
\* product and each of the two sums is rounded to 24 bits, the last sum truncated
Luminosity(r, g, b) ==
    Min(AddF32(AddF32(PartsF32(TimesF32(r, <<10032775, 25>>)),
                      PartsF32(TimesF32(g, <<9848226, 24>>))),
               PartsF32(TimesF32(b, <<15300821, 27>>)))[1], 255)

filter_grayscale(c) ==
    IF c.loaded_image_size = None THEN [c EXCEPT !.dirty = TRUE]
    ELSE
        LET img_w == c.loaded_image_size[1][1]
            img_h == c.loaded_image_size[1][2]
            len == Len(c.drawing_layer)
            Gray(i) ==
                LET k == i - 1
                    idx == (k \div 4) * 4
                IN  IF /\ idx < img_w * img_h * 4
                       /\ idx + 3 < len
                       /\ c.drawing_layer[idx + 4] > 0
                       /\ k % 4 < 3
                    THEN Luminosity(c.drawing_layer[idx + 1], c.drawing_layer[idx + 2],
                                    c.drawing_layer[idx + 3])
                    ELSE c.drawing_layer[i]
            c1 == [c EXCEPT !.drawing_layer = [i \in 1..len |-> Gray(i)]]
        IN  [rerender(c1) EXCEPT !.dirty = TRUE]

\* (factor * (pixel - 128.0) + 128.0 + brightness).clamp(0.0, 255.0) as u8 with
\* factor = 259 * (contrast + 255) / (255 * (259 - contrast)), for an integer
\* brightness and a contrast of 0 (factor 1.0) or 255 (factor 129.5): the f32
\* arithmetic is exact for these. The value is computed in halves.
Adjusted(pixel, brightness, contrast) ==
    LET factor2 == IF contrast = 0 THEN 2 ELSE 259
        halves == factor2 * (pixel - 128) + 2 * (128 + brightness)
    IN  IF halves <= 0 THEN 0 ELSE Min(halves \div 2, 255)

filter_brightness_contrast(c, brightness, contrast) ==
    IF c.loaded_image_size = None THEN [c EXCEPT !.dirty = TRUE]
    ELSE
        LET img_w == c.loaded_image_size[1][1]
            img_h == c.loaded_image_size[1][2]
            len == Len(c.drawing_layer)
            NewByte(i) ==
                LET k == i - 1
                    idx == (k \div 4) * 4
                IN  IF /\ idx < img_w * img_h * 4
                       /\ idx + 3 < len
                       /\ c.drawing_layer[idx + 4] > 0
                       /\ k % 4 < 3
                    THEN Adjusted(c.drawing_layer[i], brightness, contrast)
                    ELSE c.drawing_layer[i]
            c1 == [c EXCEPT !.drawing_layer = [i \in 1..len |-> NewByte(i)]]
        IN  [rerender(c1) EXCEPT !.dirty = TRUE]

\* The sum of channel j (1..4) of the pixels of layer in the set window
RECURSIVE SumChannel(_, _, _, _)
SumChannel(layer, img_stride, window, j) ==
    IF window = {} THEN 0
    ELSE LET q == CHOOSE q \in window : TRUE
         IN  layer[q[2] * img_stride + q[1] * 4 + j]
               + SumChannel(layer, img_stride, window \ {q}, j)

\* filter_blur dividing by the size of the whole window, clipped or not
filter_blur_unclipped_count(c, radius) ==
    IF radius = 0 THEN c
    ELSE IF c.loaded_image_size = None THEN [c EXCEPT !.dirty = TRUE]
    ELSE
        LET img_w == c.loaded_image_size[1][1]
            img_h == c.loaded_image_size[1][2]
            img_stride == img_w * 4
            len == Len(c.drawing_layer)
            Window(x, y) ==
                { q \in (Max(x - radius, 0)..Min(x + radius, img_w - 1))
                          \X (Max(y - radius, 0)..Min(y + radius, img_h - 1)) :
                    q[2] * img_stride + q[1] * 4 + 3 < len }
            Blurred(i) ==
                LET k == i - 1
                    idx == (k \div 4) * 4
                    y == idx \div img_stride
                    x == (idx % img_stride) \div 4
                IN  IF /\ idx < img_w * img_h * 4
                       /\ idx + 3 < len
                       /\ c.drawing_layer[idx + 4] # 0
                       /\ Window(x, y) # {}
                    THEN SumChannel(c.drawing_layer, img_stride, Window(x, y), (k % 4) + 1)
                           \div ((2 * radius + 1) * (2 * radius + 1))
                    ELSE c.drawing_layer[i]
            c1 == [c EXCEPT !.drawing_layer = [i \in 1..len |-> Blurred(i)]]
        IN  [rerender(c1) EXCEPT !.dirty = TRUE]

\* Every byte of temp_layer is computed from self.drawing_layer, which the
\* loops only read: the bytes of a pixel drawn on are the sums over its window,
\* divided by the count of the pixels summed, the others are the clone's.
filter_blur(c, radius) ==
    IF radius = 0 THEN c
    ELSE IF c.loaded_image_size = None THEN [c EXCEPT !.dirty = TRUE]
    ELSE
        LET img_w == c.loaded_image_size[1][1]
            img_h == c.loaded_image_size[1][2]
            img_stride == img_w * 4
            len == Len(c.drawing_layer)
            Window(x, y) ==
                { q \in (Max(x - radius, 0)..Min(x + radius, img_w - 1))
                          \X (Max(y - radius, 0)..Min(y + radius, img_h - 1)) :
                    q[2] * img_stride + q[1] * 4 + 3 < len }
            Blurred(i) ==
                LET k == i - 1
                    idx == (k \div 4) * 4
                    y == idx \div img_stride
                    x == (idx % img_stride) \div 4
                IN  IF /\ idx < img_w * img_h * 4
                       /\ idx + 3 < len
                       /\ c.drawing_layer[idx + 4] # 0
                       /\ Window(x, y) # {}
                    THEN SumChannel(c.drawing_layer, img_stride, Window(x, y), (k % 4) + 1)
                           \div Cardinality(Window(x, y))
                    ELSE c.drawing_layer[i]
            c1 == [c EXCEPT !.drawing_layer = [i \in 1..len |-> Blurred(i)]]
        IN  [rerender(c1) EXCEPT !.dirty = TRUE]

\* load_pixels placing the rows tight_stride apart in the canvas too
load_pixels_ignores_stride(c, width, height, tight_pixels) ==
    IF width # c.width \/ height # c.height THEN c
    ELSE
        LET tight_stride == width * 4
            Loaded(i) ==
                IF i <= tight_stride * height /\ i <= Len(tight_pixels)
                THEN tight_pixels[i]
                ELSE c.pixels[i]
        IN  [c EXCEPT !.pixels = [i \in 1..Len(@) |-> Loaded(i)], !.dirty = TRUE]

\* Rows are copied while both slices fit; stride >= width * 4 in every canvas
\* (aligned_stride), so the rows copied do not overlap
load_pixels(c, width, height, tight_pixels) ==
    IF width # c.width \/ height # c.height THEN c
    ELSE
        LET tight_stride == width * 4
            Loaded(i) ==
                LET k == i - 1
                    y == k \div c.stride
                    xb == k % c.stride
                    tight_offset == y * tight_stride
                    canvas_offset == y * c.stride
                IN  IF /\ y < height
                       /\ xb < tight_stride
                       /\ tight_offset + tight_stride <= Len(tight_pixels)
                       /\ canvas_offset + tight_stride <= Len(c.pixels)
                    THEN tight_pixels[tight_offset + xb + 1]
                    ELSE c.pixels[i]
        IN  [c EXCEPT !.pixels = [i \in 1..Len(@) |-> Loaded(i)], !.dirty = TRUE]

\* The rows that fit in pixels are the first ones; each gives row_bytes bytes
extract_tight_pixels(c) ==
    LET row_bytes == c.width * 4
        rows == Cardinality({y \in 0..(c.height - 1) : y * c.stride + row_bytes <= Len(c.pixels)})
    IN  [j \in 1..(rows * row_bytes) |->
            c.pixels[((j - 1) \div row_bytes) * c.stride + ((j - 1) % row_bytes) + 1]]

\* The loops of stamp_circle from pixel (x, y) on: the rest of row y, then the
\* rows up to max_y. d is <<cx2, cy2, r2>>, in half pixels as for Disc.
RECURSIVE StampLoop(_, _, _, _, _, _, _, _)
StampLoop(c, x, y, min_x, max_x, max_y, d, color) ==
    IF y > max_y THEN c
    ELSE IF x > max_x THEN StampLoop(c, min_x, y + 1, min_x, max_x, max_y, d, color)
    ELSE
        LET dx == 2 * x + 1 - d[1]
            dy == 2 * y + 1 - d[2]
            c1 == IF dx * dx + dy * dy <= d[3] * d[3] THEN blend_pixel(c, x, y, color) ELSE c
        IN  StampLoop(c1, x + 1, y, min_x, max_x, max_y, d, color)

\* stamp_circle returning early for a negative radius only
stamp_circle_stamps_radius_0(c, cx2, cy2, r2, color) ==
    IF r2 < 0 THEN c
    ELSE
        LET min_x == Max((cx2 - r2) \div 2, 0)
            max_x == Min(-((-(cx2 + r2)) \div 2), c.width - 1)
            min_y == Max((cy2 - r2) \div 2, 0)
            max_y == Min(-((-(cy2 + r2)) \div 2), c.height - 1)
        IN  StampLoop(c, min_x, min_y, min_x, max_x, max_y, <<cx2, cy2, r2>>, color)

stamp_circle(c, cx2, cy2, r2, color) ==
    IF r2 <= 0 THEN c
    ELSE
        LET min_x == Max((cx2 - r2) \div 2, 0)
            max_x == Min(-((-(cx2 + r2)) \div 2), c.width - 1)
            min_y == Max((cy2 - r2) \div 2, 0)
            max_y == Min(-((-(cy2 + r2)) \div 2), c.height - 1)
        IN  StampLoop(c, min_x, min_y, min_x, max_x, max_y, <<cx2, cy2, r2>>, color)

\* u32 arguments as <<hi, lo>>, 16 bits each: the value is hi * 65536 + lo
U32Of(n) == <<n \div 65536, n % 65536>>

\* a + b of two u32 values does not fit 32 bits
U32Overflows(a, b) == a[1] + b[1] + (a[2] + b[2]) \div 65536 >= 65536

\* a + b wrapped to 32 bits
U32Sum(a, b) ==
    <<(a[1] + b[1] + (a[2] + b[2]) \div 65536) % 65536, (a[2] + b[2]) % 65536>>

\* a.min(n) for a width or height n, which is below 65536
U32Min(a, n) == IF a[1] = 0 /\ a[2] < n THEN a[2] ELSE n

\* a u32 coordinate as the whole number the operators of the Canvas take: a
\* value of 65536 or more is 65536. Such a coordinate is compared with the width
\* or the height, both below 65536, before anything else is done with it.
U32Coord(a) == IF a[1] = 0 THEN a[2] ELSE 65536

\* fill_rect for u32 arguments x, y, w, h; x + w and y + h are the wrapped sums
fill_rect(c, x, y, w, h, color) ==
    IF w = U32Of(0) \/ h = U32Of(0) THEN c
    ELSE
        LET max_x == U32Min(U32Sum(x, w), c.width)
            max_y == U32Min(U32Sum(y, h), c.height)
            Body(xx, yy) ==
                IF xx >= U32Coord(x) /\ xx < max_x /\ yy >= U32Coord(y) /\ yy < max_y
                THEN color
                ELSE Get4(c.pixels, yy * c.stride + xx * 4)
        IN  [c EXCEPT !.pixels = ForEachCanvasPixel(c, @, Body), !.dirty = TRUE]

\* fill_rect slices pixels[idx..idx + 4] without a length check
fill_rect_panics(c, x, y, w, h) ==
    /\ w # U32Of(0)
    /\ h # U32Of(0)
    /\ \E xx \in U32Coord(x)..(U32Min(U32Sum(x, w), c.width) - 1),
          yy \in U32Coord(y)..(U32Min(U32Sum(y, h), c.height) - 1) :
          yy * c.stride + xx * 4 + 4 > Len(c.pixels)

\* x + w or y + h overflows: a panic where the build checks for overflow (the
\* default of a debug build), a wrapped sum where it does not
fill_rect_overflows(x, y, w, h) ==
    /\ w # U32Of(0)
    /\ h # U32Of(0)
    /\ U32Overflows(x, w) \/ U32Overflows(y, h)

\* get_pixel: None, or Some of the four bytes
get_pixel(c, x, y) ==
    IF x >= c.width \/ y >= c.height THEN None
    ELSE IF y * c.stride + x * 4 + 4 <= Len(c.pixels)
    THEN Some(Get4(c.pixels, y * c.stride + x * 4))
    ELSE None

-----------------------------------------------------------------------------
(* gpu.rs and the handlers of main.rs *)

\* What queue.write_texture reads: width * 4 bytes of each of the height rows,
\* the rows bytes_per_row = stride apart
TextureData(c) ==
    LET row_bytes == c.width * 4
    IN  [j \in 1..(row_bytes * c.height) |->
            c.pixels[((j - 1) \div row_bytes) * c.stride + ((j - 1) % row_bytes) + 1]]

\* write_texture rejects (and wgpu then panics on) a buffer that ends before
\* the last row it is to read
upload_panics(c) ==
    c.dirty /\ c.height > 0 /\ (c.height - 1) * c.stride + c.width * 4 > Len(c.pixels)

\* Gpu::upload_canvas: <<canvas, texture>> after the call
upload_canvas(c, t) ==
    IF ~c.dirty THEN <<c, t>>
    ELSE <<[c EXCEPT !.dirty = FALSE], Some(TextureData(c))>>

\* Gpu::resize: a new texture, unless a dimension is zero
resize(t, width, height) == IF width = 0 \/ height = 0 THEN t ELSE None

\* The WindowEvent::Resized handler: a new canvas with the rows and columns of
\* the old one that fit
resized(c, new_width, new_height) ==
    LET n == CanvasNew(Max(new_width, 1), Max(new_height, 1))
        copy_width == Min(c.width, n.width)
        copy_height == Min(c.height, n.height)
        row_bytes == copy_width * 4
        Copied(i) ==
            LET k == i - 1
                y == k \div n.stride
                xb == k % n.stride
            IN  IF /\ y < copy_height
                   /\ xb < row_bytes
                   /\ y * c.stride + row_bytes <= Len(c.pixels)
                   /\ y * n.stride + row_bytes <= Len(n.pixels)
                THEN c.pixels[y * c.stride + xb + 1]
                ELSE n.pixels[i]
    IN  [n EXCEPT !.pixels = [i \in 1..Len(@) |-> Copied(i)], !.dirty = TRUE]

\* ((size.max(1) as f32 * factor).round() as u32).max(1) for factor = quarters / 4
\* (0.75 and 1.25): round() rounds half away from zero
Scaled(size, quarters) == Max((Max(size, 1) * quarters + 2) \div 4, 1)

\* draw_ui on a canvas less than UI_MARGIN = 6 rows high: every rectangle but
\* the panel background starts at row UI_MARGIN or below, and fill_rect clips
\* it to nothing (it still sets dirty)
draw_ui(c) ==
    fill_rect(c, U32Of(0), U32Of(0), U32Of(Min(PANEL_WIDTH, c.width)), U32Of(c.height),
              <<230, 230, 230, 255>>)

-----------------------------------------------------------------------------
(* history.rs *)

HistoryState(c) ==
    [ pixels |-> c.pixels,
      drawing_layer |-> c.drawing_layer,
      stride |-> c.stride,
      width |-> c.width,
      height |-> c.height ]

\* Vec::truncate(len): keeps the first len elements, no effect when len >= Len(s)
Truncate(s, len) == SubSeq(s, 1, Min(len, Len(s)))

\* push evicting the newest retained snapshot instead of the oldest
push_states_evict_newest(st, cur, c) ==
    LET truncated == Truncate(st, cur + 1)
    IN  IF Len(truncated) >= MAX_HISTORY
        THEN Append(SubSeq(truncated, 1, Len(truncated) - 1), HistoryState(c))
        ELSE Append(truncated, HistoryState(c))

\* push without the truncate
push_states_no_truncate(st, cur, c) ==
    IF Len(st) >= MAX_HISTORY
    THEN Append(Tail(st), HistoryState(c))
    ELSE Append(st, HistoryState(c))

\* History::push: the retained snapshots and the index after the call
push_states(st, cur, c) ==
    LET truncated == Truncate(st, cur + 1)
    IN  IF Len(truncated) >= MAX_HISTORY
        THEN Append(Tail(truncated), HistoryState(c))
        ELSE Append(truncated, HistoryState(c))

\* push advancing current at capacity too
push_current_always_increments(st, cur) == cur + 1

\* push leaving current at 0 on an empty history
push_current_indexes_last(st, cur) ==
    IF st = <<>> \/ Len(Truncate(st, cur + 1)) >= MAX_HISTORY THEN cur ELSE cur + 1

push_current(st, cur) ==
    IF Len(Truncate(st, cur + 1)) >= MAX_HISTORY THEN cur ELSE cur + 1

can_undo == current > 0

can_redo == current + 1 < Len(states)

\* History::restore, and the three assignments undo and redo make
restore(c, state) ==
    [c EXCEPT !.pixels = state.pixels,
              !.drawing_layer = state.drawing_layer,
              !.dirty = TRUE]

-----------------------------------------------------------------------------
(* Inputs *)

CanvasSizes == {<<2, 1>>}

Colors == {<<0, 0, 0, 255>>, <<200, 10, 10, 255>>}

\* <<img_width, img_height, img_pixels>>
Images == { <<1, 1, <<10, 20, 30, 255>>>>,
            <<2, 1, <<10, 20, 30, 255, 40, 50, 60, 255>>>> }

Offsets == {0, 1}

\* zoom_scale as <<num, den>>: 1.0 and 2.0
ZoomScales == {<<1, 1>>, <<2, 1>>}

-----------------------------------------------------------------------------
(* Actions *)

\* The bookkeeping of one call: pushed is <<>> or the one snapshot pushed
Track(name, r, pushed) ==
    /\ op' = name
    /\ ret' = r
    /\ branched' = (name = "push" /\ op = "undo" /\ ret = TRUE)
    /\ steps' = Min(steps + 1, MaxSteps)
    /\ linear' = (linear /\ name # "redo" /\ (undoCalls > 0 => name = "undo"))
    /\ log' = IF linear' THEN log \o pushed ELSE <<>>
    /\ undoCalls' = IF ~linear' THEN 0
                    ELSE IF name = "undo" THEN Min(undoCalls + 1, MAX_HISTORY + 1)
                    ELSE undoCalls

\* The bookkeeping of a call that does not reach the Gpu
Ghost(name, r, pushed) ==
    /\ Track(name, r, pushed)
    /\ args' = <<>>
    /\ UNCHANGED <<texture, painted, flood, folder>>

Budget == ~panicked /\ steps < MaxSteps

\* history.push(&c), c being the live canvas
PushOp(c) ==
    /\ ~panicked
    /\ states' = push_states(states, current, c)
    /\ current' = push_current(states, current)
    /\ canvas' = c
    /\ Ghost("push", "none", <<HistoryState(c)>>)
    /\ UNCHANGED panicked

\* undo refusing at current == 1
UndoOp_guard_gt1 ==
    /\ ~panicked
    /\ IF current > 1
       THEN /\ current' = current - 1
            /\ IF current - 1 < Len(states)
               THEN /\ canvas' = restore(canvas, states[current])
                    /\ UNCHANGED panicked
               ELSE /\ panicked' = TRUE
                    /\ UNCHANGED canvas
            /\ Ghost("undo", TRUE, <<>>)
       ELSE /\ Ghost("undo", FALSE, <<>>)
            /\ UNCHANGED <<canvas, current, panicked>>
    /\ UNCHANGED states

\* undo moving the buffers out of the snapshot (std::mem::take) instead of
\* cloning them
UndoOp_takes_snapshot ==
    /\ ~panicked
    /\ IF current > 0
       THEN /\ current' = current - 1
            /\ IF current - 1 < Len(states)
               THEN /\ canvas' = restore(canvas, states[current])
                    /\ states' = [states EXCEPT ![current] =
                                     [@ EXCEPT !.pixels = <<>>, !.drawing_layer = <<>>]]
                    /\ UNCHANGED panicked
               ELSE /\ panicked' = TRUE
                    /\ UNCHANGED <<canvas, states>>
            /\ Ghost("undo", TRUE, <<>>)
       ELSE /\ Ghost("undo", FALSE, <<>>)
            /\ UNCHANGED <<canvas, current, panicked, states>>

\* history.undo(&mut canvas)
UndoOp ==
    /\ ~panicked
    /\ IF current > 0
       THEN /\ current' = current - 1
            /\ IF current - 1 < Len(states)
               THEN /\ canvas' = restore(canvas, states[current])
                    /\ UNCHANGED panicked
               ELSE /\ panicked' = TRUE
                    /\ UNCHANGED canvas
            /\ Ghost("undo", TRUE, <<>>)
       ELSE /\ Ghost("undo", FALSE, <<>>)
            /\ UNCHANGED <<canvas, current, panicked>>
    /\ UNCHANGED states

\* redo restoring the snapshot at the index it had before the increment
RedoOp_restores_old_index ==
    /\ ~panicked
    /\ IF current + 1 < Len(states)
       THEN /\ current' = current + 1
            /\ canvas' = restore(canvas, states[current + 1])
            /\ Ghost("redo", TRUE, <<>>)
       ELSE /\ Ghost("redo", FALSE, <<>>)
            /\ UNCHANGED <<canvas, current>>
    /\ UNCHANGED <<states, panicked>>

\* redo guarded by "self.current < self.states.len()"
RedoOp_guard_lt_len ==
    /\ ~panicked
    /\ IF current < Len(states)
       THEN /\ current' = current + 1
            /\ IF current + 1 < Len(states)
               THEN /\ canvas' = restore(canvas, states[current + 2])
                    /\ UNCHANGED panicked
               ELSE /\ panicked' = TRUE
                    /\ UNCHANGED canvas
            /\ Ghost("redo", TRUE, <<>>)
       ELSE /\ Ghost("redo", FALSE, <<>>)
            /\ UNCHANGED <<canvas, current, panicked>>
    /\ UNCHANGED states

\* history.redo(&mut canvas)
RedoOp ==
    /\ ~panicked
    /\ IF current + 1 < Len(states)
       THEN /\ current' = current + 1
            /\ canvas' = restore(canvas, states[current + 2])
            /\ Ghost("redo", TRUE, <<>>)
       ELSE /\ Ghost("redo", FALSE, <<>>)
            /\ UNCHANGED <<canvas, current>>
    /\ UNCHANGED <<states, panicked>>

\* a Canvas method that leaves c, or panics
CanvasOp(name, c, panics) ==
    /\ Budget
    /\ IF panics
       THEN panicked' = TRUE /\ UNCHANGED canvas
       ELSE canvas' = c /\ UNCHANGED panicked
    /\ Ghost(name, "none", <<>>)
    /\ UNCHANGED <<states, current>>

Push == Budget /\ PushOp(canvas)

Undo == Budget /\ UndoOp

Redo == Budget /\ RedoOp

SetPixel ==
    \E x \in {1, 2} :
        CanvasOp("set_pixel", set_pixel(canvas, x, 0, <<0, 0, 255, 255>>),
                 set_pixel_panics(canvas, x, 0))

Paste ==
    \E img \in Images, offset_x \in Offsets :
        CanvasOp("paste", paste_image_with_offset(canvas, img[1], img[2], img[3], offset_x, 0), FALSE)

BlendPixel ==
    \E x \in 0..2, color \in Colors :
        CanvasOp("blend_pixel", blend_pixel(canvas, x, 0, color), FALSE)

EraseCircle ==
    \E cx2 \in {1, 3} :
        CanvasOp("erase_circle", erase_circle(canvas, cx2, 1, 1), FALSE)

FloodFill ==
    \E x \in 0..1, color \in Colors :
        CanvasOp("flood_fill", flood_fill(canvas, x, 0, color), FALSE)

MoveLayer ==
    \E offset_x \in {-1, 1} :
        CanvasOp("move_layer", move_layer(canvas, offset_x, 0), FALSE)

FilterInvert ==
    CanvasOp("filter_invert", filter_invert(canvas), FALSE)

\* zoom_scale is a public field: the caller sets it and calls repan_image with
\* the pan offset, as the zoom keys of main.rs do
Zoom ==
    \E z \in ZoomScales :
        LET c == [canvas EXCEPT !.zoom_scale = z]
        IN  CanvasOp("zoom", repan_image(c, c.pan_offset[1], c.pan_offset[2]), FALSE)

\* The shade of the one pixel of the canvas of SpecCap: its red channel
Shade(c) == c.pixels[1]

\* One stroke and the push that follows it: the stroke paints the pixel one
\* shade further than it is (a fresh canvas is shade 255, so the first is 0)
Stroke ==
    LET next == (Shade(canvas) + 1) % 256
    IN  /\ next <= MaxShade
        /\ PushOp(blend_pixel(canvas, 0, 0, <<next, 0, 0, 255>>))

paste_image(c, img_width, img_height, img_pixels) ==
    paste_image_with_offset(c, img_width, img_height, img_pixels, 0, 0)

\* A white one-pixel image opened before anything else is done
LoadImage ==
    /\ op = "new"
    /\ ~panicked
    /\ canvas' = paste_image(canvas, 1, 1, WHITE)
    /\ Ghost("paste", "none", <<>>)
    /\ UNCHANGED <<states, current, panicked>>

\* A call or a handler that reaches the Gpu: it leaves canvas c and texture t,
\* or panics
GpuOp(name, c, t, panics) ==
    /\ Budget
    /\ IF panics
       THEN panicked' = TRUE /\ UNCHANGED <<canvas, texture>>
       ELSE canvas' = c /\ texture' = t /\ UNCHANGED panicked
    /\ Track(name, "none", <<>>)
    /\ args' = <<>>
    /\ UNCHANGED <<states, current, painted, flood, folder>>

\* gpu.upload_canvas(&mut canvas)
UploadCanvas ==
    LET done == upload_canvas(canvas, texture)
    IN  GpuOp("upload_canvas", done[1], done[2], upload_panics(canvas))

\* WindowEvent::RedrawRequested: draw_ui, then render, which uploads the canvas
\* and then either presents it or finds the surface lost; the handler then
\* resizes the Gpu to the window and sets dirty
RedrawRequested ==
    \E lost \in BOOLEAN :
        LET drawn == draw_ui(canvas)
            done == upload_canvas(drawn, texture)
        IN  GpuOp("redraw",
                  IF lost THEN [done[1] EXCEPT !.dirty = TRUE] ELSE done[1],
                  IF lost THEN resize(done[2], drawn.width, drawn.height) ELSE done[2],
                  upload_panics(drawn))

\* <<width, height>> of the window after a WindowEvent::Resized
WindowSizes == {<<1, 1>>, <<3, 2>>}

Resized ==
    \E new_size \in WindowSizes :
        GpuOp("resized", resized(canvas, new_size[1], new_size[2]),
              resize(texture, new_size[1], new_size[2]), FALSE)

\* PanelAction::CanvasSmaller and the S key; the window is as large as the canvas
CanvasSmaller ==
    LET new_w == Scaled(canvas.width, 3)
        new_h == Scaled(canvas.height, 3)
    IN  GpuOp("canvas_new", CanvasNew(Max(new_w, 1), Max(new_h, 1)),
              resize(texture, new_w, new_h), FALSE)

\* PanelAction::CanvasLarger and the L key
CanvasLarger ==
    LET new_w == Scaled(canvas.width, 5)
        new_h == Scaled(canvas.height, 5)
    IN  GpuOp("canvas_new", CanvasNew(Max(new_w, 1), Max(new_h, 1)),
              resize(texture, new_w, new_h), FALSE)

\* <<width, height, tight_pixels>> of the first layer of a project file
Projects == { <<2, 1, <<1, 2, 3, 255, 4, 5, 6, 255>>>>,
              <<1, 1, <<7, 8, 9, 255>>>> }

LoadPixels ==
    \E layer \in Projects :
        CanvasOp("load_pixels", load_pixels(canvas, layer[1], layer[2], layer[3]), FALSE)

StampCircle ==
    \E cx2 \in {1, 3} :
        CanvasOp("stamp_circle", stamp_circle(canvas, cx2, 1, 1, <<0, 0, 0, 255>>), FALSE)

\* <<x, y, w, h>>
Rects == {<<0, 0, 1, 1>>, <<1, 0, 5, 5>>}

FillRect ==
    \E r \in Rects :
        CanvasOp("fill_rect",
                 fill_rect(canvas, U32Of(r[1]), U32Of(r[2]), U32Of(r[3]), U32Of(r[4]),
                           <<0, 128, 255, 255>>),
                 fill_rect_panics(canvas, U32Of(r[1]), U32Of(r[2]), U32Of(r[3]), U32Of(r[4])))

\* A Canvas method called with the arguments a: it leaves c, or panics
CanvasCall(name, a, c, panics) ==
    /\ ~panicked
    /\ IF panics
       THEN panicked' = TRUE /\ UNCHANGED canvas
       ELSE canvas' = c /\ UNCHANGED panicked
    /\ Track(name, "none", <<>>)
    /\ args' = a
    /\ painted' = painted + 1
    /\ UNCHANGED <<states, current, texture, flood, folder>>

\* <<width, height>> of the window when the application starts: rows of less
\* than, exactly and more than one alignment unit
StartSizes == {1, 63, 64, 65} \X {1, 2}

\* A tight buffer of n bytes
Pattern(n, k) == [i \in 1..n |-> (i * k) % 256]

\* The tight buffers load_pixels is given for a w by h layer: two of w * h * 4
\* bytes, one that is a row short
TightBuffers(w, h) ==
    {Pattern(w * h * 4, 1), Pattern(w * h * 4, 7), Pattern(w * (h - 1) * 4, 3)}

\* load_pixels with the dimensions of the canvas, or with a column more
LoadTight ==
    \E dw \in {0, 1} :
        LET w == canvas.width + dw
            h == canvas.height
        IN  \E t \in TightBuffers(w, h) :
                CanvasCall("load_pixels", <<w, h, t>>, load_pixels(canvas, w, h, t), FALSE)

\* load_pixels(width, height, extract_tight_pixels()): what the project saved
\* from this canvas is opened again
Reload ==
    LET t == extract_tight_pixels(canvas)
    IN  CanvasCall("load_pixels", <<canvas.width, canvas.height, t>>,
                   load_pixels(canvas, canvas.width, canvas.height, t), FALSE)

\* The window is resized to a row more, or to a column less
Regrow ==
    \E d \in {<<0, 1>>, <<-1, 0>>} :
        LET w == canvas.width + d[1]
            h == canvas.height + d[2]
        IN  /\ ~panicked
            /\ canvas' = resized(canvas, w, h)
            /\ texture' = resize(texture, w, h)
            /\ Track("resized", "none", <<>>)
            /\ args' = <<>>
            /\ painted' = painted + 1
            /\ UNCHANGED <<states, current, panicked, flood, folder>>

\* An opaque image of w by h pixels, no two of the same colour and none white
Image(w, h) ==
    <<w, h, [i \in 1..(w * h * 4) |-> IF i % 4 = 0 THEN 255 ELSE (i * 3) % 251]>>

\* <<zoom_scale, image, pan offset>>: the views of an image pasted on canvas c.
\* On the 11 by 11 canvas: the image of 3 by 10 at zoom 2.0, panned by (3, -4);
\* on the small canvas: the zooms 0.5, 1.0 and 2.0 of an image of 2 by 2,
\* unpanned and panned.
Views(c) ==
    IF c.width = 11
    THEN { <<<<2, 1>>, Image(3, 10), <<3, -4>>>> }
    ELSE { <<<<1, 2>>, <<1, 1>>, <<2, 1>>>>[z] : z \in 1..3 }
           \X {Image(2, 2)} \X { <<0, 0>>, <<-1, 1>> }

\* The caller sets zoom_scale and pastes the image at the pan offset
PasteAt ==
    \E v \in Views(canvas) :
        LET c == [canvas EXCEPT !.zoom_scale = v[1]]
            img == v[2]
        IN  CanvasCall("paste", <<img[1], img[2], img[3], v[3][1], v[3][2]>>,
                       paste_image_with_offset(c, img[1], img[2], img[3], v[3][1], v[3][2]),
                       FALSE)

\* <<x, y>> of the pixels painted on canvas c: on the small canvases two pixels
\* that touch at a corner only, and a pixel off the canvas
Points(c) ==
    IF c.width = 11 THEN { <<10, 10>> }
    ELSE { <<0, 1>>, <<1, 0>>, <<3, 0>> }

BlendAt ==
    \E p \in Points(canvas) :
        CanvasCall("blend_pixel", <<p[1], p[2], <<200, 10, 10, 255>>>>,
                   blend_pixel(canvas, p[1], p[2], <<200, 10, 10, 255>>), FALSE)

\* a disc of radius 1 about the centre of a pixel
EraseAt ==
    \E p \in Points(canvas) :
        CanvasCall("erase_circle", <<2 * p[1] + 1, 2 * p[2] + 1, 2>>,
                   erase_circle(canvas, 2 * p[1] + 1, 2 * p[2] + 1, 2), FALSE)

\* The caller sets zoom_scale and re-pans the loaded image, as the zoom and pan
\* keys of main.rs do
Repan ==
    \E v \in Views(canvas) :
        CanvasCall("repan", <<v[3][1], v[3][2]>>,
                   repan_image([canvas EXCEPT !.zoom_scale = v[1]], v[3][1], v[3][2]),
                   FALSE)

\* The snapshot of the blank canvas, pushed before anything is done to it
Snapshot == op = "new" /\ PushOp(canvas)

\* Undo, right after an image was pasted
UndoOpen == op = "paste" /\ UndoOp

\* An opaque and a half-transparent colour
Tints == { <<200, 10, 10, 255>>, <<0, 0, 200, 128>> }

\* <<cx2, cy2, r2>>, in half pixels: about the centre of the middle pixel of a
\* 3 by 3 canvas the radii 1.0, 1.5, 0.0 and -1.0; radius 1.0 about the corner
\* four pixels share; radius 2.0 about a point right of the canvas
Stamps == { <<3, 3, 2>>, <<3, 3, 3>>, <<3, 3, 0>>, <<3, 3, -2>>, <<2, 2, 2>>, <<7, 3, 4>> }

StampAt ==
    \E d \in Stamps, color \in Tints :
        CanvasCall("stamp_circle", <<d[1], d[2], d[3], color>>,
                   stamp_circle(canvas, d[1], d[2], d[3], color), FALSE)

\* blend_pixel with an opaque, a half-transparent and a transparent colour
TintAt ==
    \E p \in Points(canvas), color \in Tints \cup { <<9, 9, 9, 0>> } :
        CanvasCall("blend_pixel", <<p[1], p[2], color>>,
                   blend_pixel(canvas, p[1], p[2], color), FALSE)

\* flood_fill up to its loop: it returns early, or sets up the stack and the
\* visited bitmap
FillBegin ==
    \E p \in Points(canvas), fill_color \in Colors :
        LET idx == p[2] * canvas.stride + p[1] * 4
            returns == \/ p[1] >= canvas.width
                       \/ p[2] >= canvas.height
                       \/ idx + 4 > Len(canvas.pixels)
                       \/ Get4(canvas.pixels, idx) = fill_color
        IN  /\ ~panicked
            /\ flood = None
            /\ flood' = IF returns THEN None
                        ELSE Some([ stack |-> <<p>>,
                                    visited |-> Fill(canvas.width * canvas.height, FALSE),
                                    marks |-> Fill(canvas.width * canvas.height, 0),
                                    pops |-> 0,
                                    target_color |-> Get4(canvas.pixels, idx),
                                    fill_color |-> fill_color,
                                    start |-> canvas ])
            /\ Track("flood_fill", "none", <<>>)
            /\ args' = <<p[1], p[2], fill_color>>
            /\ painted' = painted + 1
            /\ UNCHANGED <<canvas, states, current, texture, panicked, folder>>

\* One iteration of the loop of the call in progress
FillPop ==
    /\ flood # None
    /\ flood[1].stack # <<>>
    /\ canvas' = FloodStep(canvas, flood[1])[1]
    /\ flood' = Some(FloodStep(canvas, flood[1])[2])
    /\ UNCHANGED <<states, current, op, ret, branched, linear, log, undoCalls, steps,
                   panicked, args, texture, painted, folder>>

\* The stack is empty: the loop ends, "self.dirty = true" and the call returns
FillEnd ==
    /\ flood # None
    /\ flood[1].stack = <<>>
    /\ canvas' = [canvas EXCEPT !.dirty = TRUE]
    /\ flood' = None
    /\ UNCHANGED <<states, current, op, ret, branched, linear, log, undoCalls, steps,
                   panicked, args, texture, painted, folder>>

\* f32 values that are not negative, as <<m, e>>: the value is m / 2^e, with
\* 2^23 <= m < 2^24 (the 24-bit mantissa) or m = 0. The operators below give
\* the f32 results of brush.rs and of stamp_circle, rounded to nearest, a tie to
\* the even mantissa; 48-bit intermediate values are kept as two 24-bit halves.

\* the number of bits of n, 0 <= n < 2^30
BitLen(n) == CHOOSE k \in 0..30 : n < 2^k /\ (k = 0 \/ n >= 2^(k - 1))

\* m / 2^e for 0 <= m < 2^24, which needs no rounding
F32Norm(m, e) ==
    IF m = 0 THEN <<0, 0>> ELSE <<m * 2^(24 - BitLen(m)), e + 24 - BitLen(m)>>

\* the f32 nearest to (hi * 2^24 + lo) / 2^e, for hi and lo below 2^24
F32Round(hi, lo, e) ==
    IF hi = 0 THEN F32Norm(lo, e)
    ELSE
        LET k == BitLen(hi)
            mant == hi * 2^(24 - k) + lo \div 2^k
            rem == lo % 2^k
            up == rem > 2^(k - 1) \/ (rem = 2^(k - 1) /\ mant % 2 = 1)
        IN  IF up /\ mant = 16777215 THEN <<8388608, e - k - 1>>
            ELSE <<IF up THEN mant + 1 ELSE mant, e - k>>

\* the f32 of the whole number or half n / 2
F32Half(n) == F32Norm(n, 1)

\* a + b
F32Add(a, b) ==
    IF a[1] = 0 THEN b
    ELSE IF b[1] = 0 THEN a
    ELSE
        LET big == IF a[2] <= b[2] THEN a ELSE b
            small == IF a[2] <= b[2] THEN b ELSE a
            g == small[2] - big[2]
        IN  IF g > 24 THEN big
            ELSE LET lo == (big[1] % 2^(24 - g)) * 2^g + small[1]
                 IN  F32Round(big[1] \div 2^(24 - g) + lo \div 16777216, lo % 16777216,
                              small[2])

\* a <= b
F32Le(a, b) ==
    \/ a[1] = 0
    \/ b[1] # 0 /\ (a[2] > b[2] \/ (a[2] = b[2] /\ a[1] <= b[1]))

\* a - b for a >= b
F32Sub(a, b) ==
    IF b[1] = 0 THEN a
    ELSE
        LET g == b[2] - a[2]
        IN  IF g > 25 THEN a
            ELSE IF g = 25
            THEN IF a[1] = 8388608 /\ b[1] > 8388608 THEN <<16777215, a[2] + 1>> ELSE a
            ELSE LET lo == (a[1] % 2^(24 - g)) * 2^g - b[1]
                     hi == a[1] \div 2^(24 - g)
                 IN  IF lo < 0 THEN F32Round(hi - 1, lo + 16777216, b[2])
                     ELSE F32Round(hi, lo, b[2])

\* |a - b|
F32Dist(a, b) == IF F32Le(b, a) THEN F32Sub(a, b) ELSE F32Sub(b, a)

\* a * b: the 48-bit product of the mantissas from their 12-bit halves
F32Mul(a, b) ==
    IF a[1] = 0 \/ b[1] = 0 THEN <<0, 0>>
    ELSE
        LET a1 == a[1] \div 4096
            a0 == a[1] % 4096
            b1 == b[1] \div 4096
            b0 == b[1] % 4096
            mid == a1 * b0 + a0 * b1
            lo == (mid % 4096) * 4096 + a0 * b0
        IN  F32Round(a1 * b1 + mid \div 4096 + lo \div 16777216, lo % 16777216,
                     a[2] + b[2])

\* n / d for whole numbers 0 <= n < 128 and 0 < d < 128 as f32 values
F32Div(n, d) ==
    IF n = 0 THEN <<0, 0>>
    ELSE
        LET kn == 7 - BitLen(n)
            kd == 7 - BitLen(d)
            N == n * 2^kn
            D == d * 2^kd
            g == IF N >= D THEN 7 ELSE 8
            r1 == (N * 65536) % D
            M == ((N * 65536) \div D) * 2^g + (r1 * 2^g) \div D
            r2 == (r1 * 2^g) % D
            up == 2 * r2 > D \/ (2 * r2 = D /\ M % 2 = 1)
        IN  IF up /\ M = 16777215 THEN <<8388608, 16 + g + kn - kd - 1>>
            ELSE <<IF up THEN M + 1 ELSE M, 16 + g + kn - kd>>

\* a.floor() and a.ceil() as whole numbers, for a below 2^24
F32Floor(a) == IF a[2] > 30 THEN 0 ELSE a[1] \div 2^a[2]

F32Ceil(a) ==
    IF a[1] = 0 THEN 0
    ELSE IF a[2] > 30 THEN 1
    ELSE IF a[1] % 2^a[2] = 0 THEN F32Floor(a) ELSE F32Floor(a) + 1

\* stamp_circle for a centre and a radius that are f32 values, not negative:
\* the loops of stamp_circle, with the arithmetic of the test in f32
RECURSIVE StampF32Loop(_, _, _, _, _, _, _, _)
StampF32Loop(c, x, y, min_x, max_x, max_y, d, color) ==
    IF y > max_y THEN c
    ELSE IF x > max_x THEN StampF32Loop(c, min_x, y + 1, min_x, max_x, max_y, d, color)
    ELSE
        LET dx == F32Dist(F32Half(2 * x + 1), d[1])
            dy == F32Dist(F32Half(2 * y + 1), d[2])
            c1 == IF F32Le(F32Add(F32Mul(dx, dx), F32Mul(dy, dy)), F32Mul(d[3], d[3]))
                  THEN blend_pixel(c, x, y, color)
                  ELSE c
        IN  StampF32Loop(c1, x + 1, y, min_x, max_x, max_y, d, color)

stamp_circle_f32(c, cx, cy, radius, color) ==
    IF radius[1] = 0 THEN c
    ELSE
        LET min_x == IF F32Le(radius, cx) THEN F32Floor(F32Sub(cx, radius)) ELSE 0
            max_x == Min(F32Ceil(F32Add(cx, radius)), c.width - 1)
            min_y == IF F32Le(radius, cy) THEN F32Floor(F32Sub(cy, radius)) ELSE 0
            max_y == Min(F32Ceil(F32Add(cy, radius)), c.height - 1)
        IN  StampF32Loop(c, min_x, min_y, min_x, max_x, max_y, <<cx, cy, radius>>, color)

\* Brush::stamp, pos in half pixels
brush_stamp(brush, c, pos) ==
    stamp_circle_f32(c, F32Half(pos[1]), F32Half(pos[2]), brush.radius, brush.color)

\* dist.max(1.0).ceil() for dx = dx2 / 2 and dy = dy2 / 2: the least whole
\* number, 1 or more, that is not below the square root of dx * dx + dy * dy.
\* For halves of this size the f32 sum is exact and the f32 square root, rounded
\* to nearest, is whole only where the exact root is.
StrokeSteps(dx2, dy2) ==
    CHOOSE m \in 1..(dx2 + dy2 + 1) :
        /\ 4 * m * m >= dx2 * dx2 + dy2 * dy2
        /\ m = 1 \/ 4 * (m - 1) * (m - 1) < dx2 * dx2 + dy2 * dy2

\* the values of (x, y) at the calls of stamp_circle in the loop of stroke
RECURSIVE StrokeCentres(_, _, _, _, _)
StrokeCentres(x, y, step_x, step_y, left) ==
    IF left = 0 THEN <<>>
    ELSE <<<<x, y>>>> \o StrokeCentres(F32Add(x, step_x), F32Add(y, step_y),
                                      step_x, step_y, left - 1)

\* the centres of stroke(from, to), from and to in half pixels with to not
\* left of nor above from (dx and dy are not negative)
Centres(from, to) ==
    LET dx2 == to[1] - from[1]
        dy2 == to[2] - from[2]
        nsteps == StrokeSteps(dx2, dy2)
    IN  StrokeCentres(F32Half(from[1]), F32Half(from[2]),
                      F32Div(dx2, 2 * nsteps), F32Div(dy2, 2 * nsteps), nsteps + 1)

RECURSIVE StrokeLoop(_, _, _, _)
StrokeLoop(brush, c, centres, i) ==
    IF i > Len(centres) THEN c
    ELSE StrokeLoop(brush,
                    stamp_circle_f32(c, centres[i][1], centres[i][2], brush.radius, brush.color),
                    centres, i + 1)

\* Brush::stroke
brush_stroke(brush, c, from, to) == StrokeLoop(brush, c, Centres(from, to), 1)

\* The brushes: black of radius 0.5 and red of radius 1.0
Brushes ==
    { [radius |-> F32Half(1), color |-> <<0, 0, 0, 255>>],
      [radius |-> F32Half(2), color |-> <<200, 10, 10, 255>>] }

\* Cursor positions, in half pixels
Starts == { <<0, 0>>, <<1, 1>> }

Ends == { <<0, 0>>, <<1, 1>>, <<1, 0>>, <<2, 2>>, <<6, 8>>, <<7, 8>>, <<7, 10>> }

\* The first position of a drag: prev is None
BrushStamp ==
    \E brush \in Brushes, p \in Starts :
        CanvasCall("stamp", <<p>>, brush_stamp(brush, canvas, p), FALSE)

\* A later position of a drag: the stroke from the last one. args keeps the
\* centres of the circles.
BrushStroke ==
    \E brush \in Brushes, from \in Starts, to \in Ends :
        /\ to[1] >= from[1]
        /\ to[2] >= from[2]
        /\ CanvasCall("stroke", <<from, to, Centres(from, to)>>,
                      brush_stroke(brush, canvas, from, to), FALSE)

\* u32 arguments: inside the canvas of 3 by 3, its width and height, and the
\* largest u32
Far == { U32Of(1), U32Of(3), <<65535, 65535>> }

SetPixelFar ==
    \E x \in Far, y \in Far :
        CanvasCall("set_pixel", <<x, y, <<0, 0, 0, 255>>>>,
                   set_pixel(canvas, U32Coord(x), U32Coord(y), <<0, 0, 0, 255>>),
                   set_pixel_panics(canvas, U32Coord(x), U32Coord(y)))

BlendPixelFar ==
    \E x \in Far, y \in Far :
        CanvasCall("blend_pixel", <<x, y, <<200, 10, 10, 255>>>>,
                   blend_pixel(canvas, U32Coord(x), U32Coord(y), <<200, 10, 10, 255>>), FALSE)

FloodFillFar ==
    \E x \in Far, y \in Far :
        CanvasCall("flood_fill", <<x, y, <<0, 0, 0, 255>>>>,
                   flood_fill(canvas, U32Coord(x), U32Coord(y), <<0, 0, 0, 255>>), FALSE)

\* get_pixel changes nothing: ret keeps what it returns
GetPixelFar ==
    \E x \in Far, y \in Far :
        /\ ~panicked
        /\ Track("get_pixel", get_pixel(canvas, U32Coord(x), U32Coord(y)), <<>>)
        /\ args' = <<x, y>>
        /\ painted' = painted + 1
        /\ UNCHANGED <<canvas, states, current, panicked, texture, flood, folder>>

\* fill_rect in a build that checks for overflow, and in one that does not
FillRectFar ==
    \E x \in Far, y \in {U32Of(0), <<65535, 65535>>},
       w \in {U32Of(0), U32Of(2), <<65535, 65535>>}, h \in {U32Of(1), <<65535, 65535>>},
       overflow_checks \in BOOLEAN :
        CanvasCall("fill_rect", <<x, y, w, h, <<0, 128, 255, 255>>>>,
                   fill_rect(canvas, x, y, w, h, <<0, 128, 255, 255>>),
                   \/ fill_rect_panics(canvas, x, y, w, h)
                   \/ overflow_checks /\ fill_rect_overflows(x, y, w, h))

\* The image of 3 by 3 opened on the 3 by 3 canvas, unpanned or panned right
OpenLayer ==
    \E offset_x \in {0, 1} :
        LET img == Image(3, 3)
        IN  CanvasCall("paste", <<img[1], img[2], img[3], offset_x, 0>>,
                       paste_image_with_offset(canvas, img[1], img[2], img[3], offset_x, 0),
                       FALSE)

\* An opaque circle: the whole canvas, the middle pixel and its four neighbours,
\* the four pixels of the lower right corner, or the upper left pixel
Daub ==
    \E d \in { <<3, 3, 3>>, <<3, 3, 2>>, <<4, 4, 2>>, <<1, 1, 1>> }, color \in Colors :
        CanvasCall("stamp_circle", <<d[1], d[2], d[3], color>>,
                   stamp_circle(canvas, d[1], d[2], d[3], color), FALSE)

MoveAt ==
    \E o \in { <<1, 0>>, <<-1, 1>>, <<0, 3>> } :
        CanvasCall("move_layer", o, move_layer(canvas, o[1], o[2]), FALSE)

InvertAll ==
    CanvasCall("filter_invert", <<>>, filter_invert(canvas), FALSE)

GrayAll ==
    CanvasCall("filter_grayscale", <<>>, filter_grayscale(canvas), FALSE)

\* brighter by 10, or the contrast at its highest
AdjustAll ==
    \E a \in { <<10, 0>>, <<0, 255>> } :
        CanvasCall("filter_brightness_contrast", a,
                   filter_brightness_contrast(canvas, a[1], a[2]), FALSE)

BlurAll ==
    \E radius \in 0..2 :
        CanvasCall("filter_blur", <<radius>>, filter_blur(canvas, radius), FALSE)

\* The seeds of the fills: on the 11 by 11 canvas the pixel of the example once
\* the image is on it at zoom 2.0, where the region is that one pixel
Seeds(c) ==
    IF c.width = 11
    THEN IF c.zoom_scale = <<2, 1>> /\ c.loaded_image_size # None THEN {<<10, 10>>} ELSE {}
    ELSE Points(c)

FillAt ==
    \E p \in Seeds(canvas) :
        CanvasCall("flood_fill", <<p[1], p[2], <<0, 0, 0, 255>>>>,
                   flood_fill(canvas, p[1], p[2], <<0, 0, 0, 255>>), FALSE)

-----------------------------------------------------------------------------
(* Specifications *)

InitHistory ==
    /\ states = <<>>
    /\ current = 0
    /\ op = "new"
    /\ ret = "none"
    /\ branched = FALSE
    /\ log = <<>>
    /\ linear = TRUE
    /\ undoCalls = 0
    /\ steps = 0
    /\ panicked = FALSE
    /\ args = <<>>
    /\ texture = None
    /\ painted = 0
    /\ flood = None
    /\ folder = None

\* Canvas::new and History::new
Init ==
    /\ \E size \in CanvasSizes : canvas = CanvasNew(size[1], size[2])
    /\ InitHistory

\* Any MaxSteps calls of the Canvas and History methods
Next ==
    \/ Push
    \/ Undo
    \/ Redo
    \/ SetPixel
    \/ Paste
    \/ BlendPixel
    \/ EraseCircle
    \/ FloodFill
    \/ MoveLayer
    \/ FilterInvert
    \/ Zoom

Spec == Init /\ [][Next]_vars

\* A one-pixel canvas whose every stroke is pushed, with undo and redo at will:
\* long enough a history to fill it and to evict from it
InitCap ==
    /\ canvas = CanvasNew(1, 1)
    /\ InitHistory

NextCap ==
    \/ LoadImage
    \/ Stroke
    \/ UndoOp
    \/ RedoOp

SpecCap == InitCap /\ [][NextCap]_vars

\* The application: any MaxGpuSteps calls of Spec and of the Gpu that presents
\* the canvas
NextGpu ==
    \/ steps < MaxGpuSteps /\ UploadCanvas
    \/ steps < MaxGpuSteps /\ RedrawRequested
    \/ steps < MaxGpuSteps /\ Resized
    \/ steps < MaxGpuSteps /\ CanvasSmaller
    \/ steps < MaxGpuSteps /\ CanvasLarger
    \/ steps < MaxGpuSteps /\ LoadPixels
    \/ steps < MaxGpuSteps /\ StampCircle
    \/ steps < MaxGpuSteps /\ FillRect
    \/ steps < MaxGpuSteps /\ Push
    \/ steps < MaxGpuSteps /\ Undo
    \/ steps < MaxGpuSteps /\ Redo
    \/ steps < MaxGpuSteps /\ SetPixel
    \/ steps < MaxGpuSteps /\ Paste
    \/ steps < MaxGpuSteps /\ BlendPixel
    \/ steps < MaxGpuSteps /\ EraseCircle
    \/ steps < MaxGpuSteps /\ FloodFill
    \/ steps < MaxGpuSteps /\ MoveLayer
    \/ steps < MaxGpuSteps /\ FilterInvert
    \/ steps < MaxGpuSteps /\ Zoom

SpecGpu == Init /\ [][NextGpu]_vars

\* Canvas::new for the window the application starts with
InitBuffer ==
    /\ \E size \in StartSizes : canvas = CanvasNew(Max(size[1], 1), Max(size[2], 1))
    /\ InitHistory

\* Projects loaded into canvases of several widths, and the window resized
NextBuffer ==
    \/ painted < MaxLoads /\ LoadTight
    \/ painted < MaxLoads /\ Reload
    \/ painted < MaxLoads /\ Regrow

SpecBuffer == InitBuffer /\ [][NextBuffer]_vars

\* The canvases images are pasted on
PasteSizes == {<<3, 2>>, <<11, 11>>}

InitPaste ==
    /\ \E size \in PasteSizes : canvas = CanvasNew(size[1], size[2])
    /\ InitHistory

\* Images pasted at several zooms and pan offsets, painted on and pasted again
NextPaste ==
    \/ painted < MaxPastes /\ PasteAt
    \/ painted < MaxPastes /\ BlendAt
    \/ painted < MaxPastes /\ EraseAt
    \/ painted < MaxPastes /\ FillAt

SpecPaste == InitPaste /\ [][NextPaste]_vars

InitPaint ==
    /\ canvas = CanvasNew(3, 3)
    /\ InitHistory

\* An image opened on a 3 by 3 canvas, with or without a snapshot and an undo
\* around it, then painted on and re-panned
NextPaint ==
    \/ Snapshot
    \/ UndoOpen
    \/ painted < MaxPastes /\ canvas.loaded_image_size = None /\ PasteAt
    \/ painted < MaxPastes /\ Repan
    \/ painted < MaxPastes /\ BlendAt
    \/ painted < MaxPastes /\ EraseAt
    \/ painted < MaxPastes /\ FillAt

SpecPaint == InitPaint /\ [][NextPaint]_vars

\* Circles stamped and pixels blended, in colours of any alpha, on a 3 by 3
\* canvas before or after an image is opened on it; nothing composes the
\* drawing layer again after a stroke
NextStamp ==
    \/ Snapshot
    \/ UndoOpen
    \/ painted < MaxStamps /\ canvas.loaded_image_size = None /\ PasteAt
    \/ painted < MaxStamps /\ StampAt
    \/ painted < MaxStamps /\ TintAt

SpecStamp == InitPaint /\ [][NextStamp]_vars

\* flood_fill run one iteration at a time on a 3 by 3 canvas, blank, painted on
\* or with an image; a call in progress runs on: nothing else runs meanwhile
NextFill ==
    \/ flood = None /\ painted < MaxFills /\ canvas.loaded_image_size = None /\ PasteAt
    \/ flood = None /\ painted < MaxFills /\ BlendAt
    \/ painted < MaxFills /\ FillBegin
    \/ FillPop
    \/ FillEnd

SpecFill == InitPaint /\ [][NextFill]_vars /\ WF_vars(FillPop) /\ WF_vars(FillEnd)

\* The drawing layer of an image of 3 by 3 painted on, moved and filtered
NextLayer ==
    \/ Snapshot
    \/ UndoOpen
    \/ painted < MaxEdits /\ canvas.loaded_image_size = None /\ OpenLayer
    \/ painted < MaxEdits /\ Daub
    \/ painted < MaxEdits /\ MoveAt
    \/ painted < MaxEdits /\ InvertAll
    \/ painted < MaxEdits /\ GrayAll
    \/ painted < MaxEdits /\ AdjustAll
    \/ painted < MaxEdits /\ BlurAll

SpecLayer == InitPaint /\ [][NextLayer]_vars

\* Brush strokes on a blank canvas of 6 by 6
InitStroke ==
    /\ canvas = CanvasNew(6, 6)
    /\ InitHistory

NextStroke ==
    \/ painted < MaxStrokes /\ BrushStamp
    \/ painted < MaxStrokes /\ BrushStroke

SpecStroke == InitStroke /\ [][NextStroke]_vars

\* Calls with coordinates inside and outside the canvas of 3 by 3, with or
\* without an image
NextFar ==
    \/ painted < MaxFar /\ canvas.loaded_image_size = None /\ OpenLayer
    \/ painted < MaxFar /\ SetPixelFar
    \/ painted < MaxFar /\ BlendPixelFar
    \/ painted < MaxFar /\ FloodFillFar
    \/ painted < MaxFar /\ GetPixelFar
    \/ painted < MaxFar /\ FillRectFar

SpecFar == InitPaint /\ [][NextFar]_vars

-----------------------------------------------------------------------------
(* Project files: io.rs and layer.rs *)

\* Layer::from_rgba
from_rgba(name, width, height, pixels) ==
    [ name |-> name, width |-> width, height |-> height, visible |-> TRUE,
      pixels |-> pixels ]

\* Project::new
ProjectNew(name, width, height) ==
    [ name |-> name, width |-> width, height |-> height, layers |-> <<>> ]

\* Project::add_layer_metadata
add_layer_metadata(project, name, filename) ==
    [ project EXCEPT !.layers =
          Append(@, [ name |-> name, visible |-> TRUE, filename |-> filename ]) ]

\* format!("layer_{:03}.png", idx)
LayerFilename(idx) ==
    CASE idx = 0 -> "layer_000.png"
      [] idx = 1 -> "layer_001.png"
      [] idx = 2 -> "layer_002.png"
      [] OTHER -> "layer_003.png"

\* Path::file_stem of a layer file, "imported" when the path has none
FileStem(filename) ==
    CASE filename = "layer_000.png" -> "layer_000"
      [] filename = "layer_001.png" -> "layer_001"
      [] filename = "layer_002.png" -> "layer_002"
      [] filename = "layer_003.png" -> "layer_003"
      [] OTHER -> "imported"

\* fs::write: the files of the folder after content is written to filename
WriteFile(files, filename, content) ==
    [ f \in DOMAIN files \cup {filename} |->
          IF f = filename THEN content ELSE files[f] ]

\* A PNG file of an RGBA image: its header and its rows
Png(width, height, data) ==
    [ kind |-> "png", width |-> width, height |-> height, data |-> data ]

\* export_layer_as_png: <<files, result>>. ImageBuffer::from_raw is None when
\* the buffer is shorter than width * height * 4 bytes; save writes the first
\* width * height * 4 bytes of a longer one
export_layer_as_png(files, layer, filename) ==
    LET len == layer.width * layer.height * 4
    IN  IF Len(layer.pixels) < len
        THEN <<files, "Failed to create image buffer">>
        ELSE <<WriteFile(files, filename,
                         Png(layer.width, layer.height, SubSeq(layer.pixels, 1, len))),
               "Ok">>

\* load_image: Err(message) as <<message>>, Ok(layer) as <<"Ok", layer>>
load_image(files, filename) ==
    IF filename \notin DOMAIN files \/ files[filename].kind # "png"
    THEN <<"Failed to load image">>
    ELSE <<"Ok", from_rgba(FileStem(filename), files[filename].width,
                           files[filename].height, files[filename].data)>>

\* serde_json::to_string_pretty of a Project: the fields in declaration order
ProjectJson(project) ==
    [ kind |-> "json",
      text |-> <<project.name, project.width, project.height,
                 [ i \in 1..Len(project.layers) |->
                       <<project.layers[i].name, project.layers[i].visible,
                         project.layers[i].filename>> ]>> ]

\* serde_json::from_str::<Project>
ParseProject(text) ==
    [ name |-> text[1], width |-> text[2], height |-> text[3],
      layers |-> [ i \in 1..Len(text[4]) |->
                       [ name |-> text[4][i][1], visible |-> text[4][i][2],
                         filename |-> text[4][i][3] ] ] ]

\* The loop of save_project from layer idx on: <<files, result>>; the files
\* written before a failure stay
RECURSIVE SaveLayers(_, _, _)
SaveLayers(files, layers, idx) ==
    IF idx >= Len(layers)
    THEN <<files, "Ok">>
    ELSE LET done == export_layer_as_png(files, layers[idx + 1], LayerFilename(idx))
         IN  IF done[2] # "Ok" THEN done
             ELSE SaveLayers(done[1], layers, idx + 1)

\* save_project: <<folder, result>>. create_dir_all makes the folder when
\* there is none and keeps the files of one that exists
save_project(dir, project, layers) ==
    LET files == IF dir = None THEN << >> ELSE dir[1]
        saved == SaveLayers(files, layers, 0)
    IN  IF saved[2] # "Ok" THEN <<Some(saved[1]), saved[2]>>
        ELSE <<Some(WriteFile(saved[1], "project.json", ProjectJson(project))), "Ok">>

\* The loop of load_project from metadata entry idx on: Err(message) as
\* <<message>>, Ok(layers) as <<"Ok", layers>>
RECURSIVE LoadLayers(_, _, _, _)
LoadLayers(files, project, idx, layers) ==
    IF idx >= Len(project.layers)
    THEN <<"Ok", layers>>
    ELSE LET loaded == load_image(files, LayerFilename(idx))
         IN  IF loaded[1] # "Ok" THEN loaded
             ELSE LoadLayers(files, project, idx + 1,
                             Append(layers,
                                    [ loaded[2] EXCEPT
                                        !.name = project.layers[idx + 1].name,
                                        !.visible = project.layers[idx + 1].visible ]))

\* load_project: Err(message) as <<message>>, Ok((project, layers)) as
\* <<"Ok", project, layers>>
load_project(dir) ==
    IF dir = None \/ "project.json" \notin DOMAIN dir[1]
    THEN <<"Failed to read project.json">>
    ELSE LET project == ParseProject(dir[1]["project.json"].text)
             loaded == LoadLayers(dir[1], project, 0, <<>>)
         IN  IF loaded[1] # "Ok" THEN loaded
             ELSE <<"Ok", project, loaded[2]>>

\* Layers of 1 by 1 and 2 by 1 pixels, the second with a buffer longer than
\* its image, and a layer whose buffer is too short to export
SavedLayers ==
    { from_rgba("test_layer", 1, 1, <<128, 128, 128, 128>>),
      from_rgba("canvas", 2, 1, <<200, 200, 200, 200, 0, 0, 0, 255, 9>>),
      from_rgba("short", 2, 1, <<1, 2, 3, 4>>) }

\* The lists of at most MaxLayers layers
LayerLists ==
    UNION { [1..n -> SavedLayers] : n \in 0..MaxLayers }

\* Projects with 0 to MaxLayers metadata entries, built as the callers build
\* them
RECURSIVE WithMetadata(_, _)
WithMetadata(project, n) ==
    IF n = 0 THEN project
    ELSE add_layer_metadata(WithMetadata(project, n - 1), "Layer",
                            LayerFilename(n - 1))

SavedProjects ==
    { WithMetadata(ProjectNew(name, size[1], size[2]), n) :
          name \in {"IOTest"}, size \in {<<1, 1>>, <<2, 1>>}, n \in 0..MaxLayers }

\* A call that reads or writes the project folder only
FolderCall(name, a, r, dir) ==
    /\ folder' = dir
    /\ Track(name, r, <<>>)
    /\ args' = a
    /\ painted' = painted + 1
    /\ UNCHANGED <<canvas, states, current, panicked, texture, flood>>

\* fs::remove_dir_all(test_folder)
RemoveDir ==
    /\ folder # None
    /\ FolderCall("remove_dir_all", <<>>, "none", None)

\* save_project(&project, &layers, folder)
SaveProject ==
    \E project \in SavedProjects, layers \in LayerLists :
        LET done == save_project(folder, project, layers)
        IN  FolderCall("save_project", <<project, layers>>, done[2], done[1])

\* load_project(folder)
LoadProject ==
    FolderCall("load_project", <<>>, load_project(folder), folder)

\* Saves into a new folder and into one that holds an earlier project
NextProject ==
    \/ painted < MaxSaves /\ RemoveDir
    \/ painted < MaxSaves /\ SaveProject
    \/ painted < MaxSaves /\ LoadProject

SpecProject == Init /\ [][NextProject]_vars

-----------------------------------------------------------------------------
(* Claims about History *)

\* the snapshot History.current indexes: states[current] of the source
CurrentState == states[current + 1]

\* the calls so far are pushes (and canvas methods) only
OnlyPushed == linear /\ undoCalls = 0

\* the last n elements of s
LastN(s, n) == SubSeq(s, Len(s) - n + 1, Len(s))

\* C1: after any push, current is states.len() - 1 and states[current] is a
\* copy of the canvas that was pushed.
C1_PushIndexesPushed ==
    op = "push" =>
        /\ current = Len(states) - 1
        /\ CurrentState = HistoryState(canvas)

\* C2: never more than MAX_HISTORY snapshots are retained; as long as only
\* pushes were made, the retained snapshots are the most recently pushed ones,
\* in push order, MAX_HISTORY of them once that many were pushed.
C2_Capacity ==
    /\ Len(states) <= MAX_HISTORY
    /\ OnlyPushed =>
          /\ Len(states) = Min(Len(log), MAX_HISTORY)
          /\ states = LastN(log, Min(Len(log), MAX_HISTORY))

C2_Witness ==
    /\ OnlyPushed
    /\ Len(log) = MAX_HISTORY + 5
    /\ Len(states) = MAX_HISTORY
    /\ states[1] = log[6]

\* C3: a push that follows a successful undo leaves can_redo() false, and keeps
\* no snapshot that was after current: what it retains before the new snapshot
\* is the end of states[0..=current].
C3_BranchTruncation ==
    [][ (op = "undo" /\ ret = TRUE /\ op' = "push") =>
            LET kept == SubSeq(states', 1, Len(states') - 1)
            IN  /\ ~(current' + 1 < Len(states'))
                /\ Len(kept) <= current + 1
                /\ kept = SubSeq(states, current + 2 - Len(kept), current + 1) ]_vars

C3_Witness ==
    /\ op = "push"
    /\ branched
    /\ ~can_redo
    /\ Len(states) = MAX_HISTORY

\* C4: undo returns true exactly when current > 0 before the call, which is
\* what can_undo reports; it then decrements current and makes the pixels and
\* the drawing layer of the canvas those of states[current], with dirty set;
\* when current is 0 it returns false and changes neither history nor canvas.
C4_Undo ==
    [][ op' = "undo" =>
            /\ ret' = can_undo
            /\ ret' = (current > 0)
            /\ states' = states
            /\ ~panicked'
            /\ current > 0 =>
                  /\ current' = current - 1
                  /\ canvas'.pixels = states[current' + 1].pixels
                  /\ canvas'.drawing_layer = states[current' + 1].drawing_layer
                  /\ canvas'.dirty
            /\ current = 0 =>
                  /\ current' = current
                  /\ canvas' = canvas ]_vars

C4_Witness ==
    /\ op = "undo"
    /\ ret = TRUE
    /\ current > 0
    /\ canvas.drawing_layer # <<>>
    /\ canvas.pixels = CurrentState.pixels
    /\ canvas.pixels # states[Len(states)].pixels

\* C5: redo returns true exactly when current + 1 < states.len() before the
\* call, which is what can_redo reports; it then increments current and makes
\* the pixels and the drawing layer of the canvas those of states[current],
\* with dirty set; otherwise it returns false and changes neither history nor
\* canvas.
C5_Redo ==
    [][ op' = "redo" =>
            /\ ret' = can_redo
            /\ ret' = (current + 1 < Len(states))
            /\ states' = states
            /\ ~panicked'
            /\ current + 1 < Len(states) =>
                  /\ current' = current + 1
                  /\ canvas'.pixels = states[current' + 1].pixels
                  /\ canvas'.drawing_layer = states[current' + 1].drawing_layer
                  /\ canvas'.dirty
            /\ ~(current + 1 < Len(states)) =>
                  /\ current' = current
                  /\ canvas' = canvas ]_vars

C5_Witness ==
    /\ op = "redo"
    /\ ret = TRUE
    /\ canvas.drawing_layer # <<>>
    /\ canvas.pixels = CurrentState.pixels
    /\ canvas.pixels # states[1].pixels

\* MAX_HISTORY + 5 pushes followed by undo calls only
PushedPastCapacity == linear /\ Len(log) = MAX_HISTORY + 5

\* C6: after MAX_HISTORY + 5 pushes no undo faults, and MAX_HISTORY - 1 undo
\* calls and one more leave current at 0, where can_undo is false; a further
\* undo returns false and changes nothing.
C6_UndoToBoundary ==
    [][ /\ PushedPastCapacity' => ~panicked'
        /\ (PushedPastCapacity /\ undoCalls >= MAX_HISTORY)' =>
              (current = 0 /\ ~can_undo)'
        /\ (PushedPastCapacity /\ undoCalls >= MAX_HISTORY /\ op' = "undo") =>
              /\ ret' = FALSE
              /\ UNCHANGED <<canvas, states, current>> ]_vars

C6_Witness ==
    /\ PushedPastCapacity
    /\ undoCalls = MAX_HISTORY + 1
    /\ op = "undo"
    /\ ret = FALSE
    /\ current = 0

\* the one call so far is a push (canvas methods aside)
FirstPushed == OnlyPushed /\ Len(log) = 1 /\ op = "push"

\* C7: after the first push on an empty History current is 1 and the one
\* snapshot is at index 0, so can_undo is true; the undo that follows succeeds
\* and restores that very snapshot.
C7_FirstPush ==
    [][ /\ FirstPushed' => (current = 1 /\ Len(states) = 1 /\ can_undo)'
        /\ (FirstPushed /\ op' = "undo") =>
              /\ ret' = TRUE
              /\ current' = 0
              /\ canvas'.pixels = log[1].pixels
              /\ canvas'.drawing_layer = log[1].drawing_layer
              /\ canvas'.pixels = canvas.pixels
              /\ canvas'.drawing_layer = canvas.drawing_layer ]_vars

C7_Witness ==
    /\ linear
    /\ Len(log) = 1
    /\ undoCalls = 1
    /\ op = "undo"
    /\ ret = TRUE
    /\ current = 0
    /\ Len(states) = 1

-----------------------------------------------------------------------------
(* Claims about History and Canvas together *)

\* C8: no call but push changes a stored snapshot; push leaves the canvas as
\* it is, stores a copy of it last, and every snapshot it retains is one that
\* was stored before, unchanged.
C8_SnapshotsIndependent ==
    [][ /\ op' # "push" => states' = states
        /\ op' = "push" =>
              /\ canvas' = canvas
              /\ states'[Len(states')] = HistoryState(canvas)
              /\ \A i \in 1..(Len(states') - 1) :
                    \E j \in 1..Len(states) : states'[i] = states[j] ]_vars

C8_Witness ==
    /\ states # <<>>
    /\ op \in {"blend_pixel", "erase_circle", "flood_fill", "filter_invert", "paste", "undo"}
    /\ canvas.pixels # states[Len(states)].pixels
    /\ canvas.drawing_layer # states[Len(states)].drawing_layer

\* C9: whenever loaded_image_size is Some((w, h)), the drawing layer is
\* w * h * 4 bytes long.
C9_LayerMatchesImage ==
    canvas.loaded_image_size # None =>
        Len(canvas.drawing_layer) =
            canvas.loaded_image_size[1][1] * canvas.loaded_image_size[1][2] * 4

\* Every canvas pixel that maps to a pixel of the drawing layer shows the
\* stroke stored there when its alpha is 255, and the image when it is 0
StrokesOverImage(c) ==
    LET img_w == c.loaded_image_size[1][1]
        img_h == c.loaded_image_size[1][2]
        img == c.loaded_image_data[1]
    IN  \A x \in 0..(c.width - 1), y \in 0..(c.height - 1) :
            LET img_x == ImgCoord(x, c.zoom_scale, c.pan_offset[1])
                img_y == ImgCoord(y, c.zoom_scale, c.pan_offset[2])
                img_idx == img_y * (img_w * 4) + img_x * 4
                shown == Get4(c.pixels, y * c.stride + x * 4)
            IN  (InImage(img_x, img_y, img_w, img_h) /\ img_idx + 4 <= Len(c.drawing_layer)) =>
                    LET stroke == Get4(c.drawing_layer, img_idx)
                    IN  /\ stroke[4] = 255 =>
                              <<shown[1], shown[2], shown[3]>> = <<stroke[1], stroke[2], stroke[3]>>
                        /\ (stroke[4] = 0 /\ img_idx + 4 <= Len(img)) =>
                              shown = Get4(img, img_idx)

-----------------------------------------------------------------------------
(* Claims about Canvas *)

LastClean ==
    IF texture = None
    THEN TextureData(CanvasNew(canvas.width, canvas.height))
    ELSE texture[1]

C12_Stride ==
    /\ canvas.stride % COPY_BYTES_PER_ROW_ALIGNMENT = 0
    /\ canvas.stride >= canvas.width * 4
    /\ \A m \in 0..(canvas.width * 4 + COPY_BYTES_PER_ROW_ALIGNMENT) :
          (m % COPY_BYTES_PER_ROW_ALIGNMENT = 0 /\ m >= canvas.width * 4) => canvas.stride <= m
    /\ Len(canvas.pixels) = canvas.stride * canvas.height

C12_Witness ==
    /\ canvas.width = 64
    /\ canvas.stride = 256
    /\ canvas.height = 2
    /\ Len(canvas.pixels) = 512
    /\ op = "resized"

\* C13: load_pixels(width, height, t) with the dimensions of the canvas and a
\* tight buffer t of width * height * 4 bytes leaves a canvas whose
\* extract_tight_pixels() is t, and so leaves extract_tight_pixels() as it was
\* when t is what it returned before; with other dimensions load_pixels
\* changes nothing.
C13_LoadExtract ==
    [][ op' = "load_pixels" =>
            LET width == args'[1]
                height == args'[2]
                t == args'[3]
            IN  IF width # canvas.width \/ height # canvas.height
                THEN canvas' = canvas
                ELSE /\ Len(t) = width * height * 4 => extract_tight_pixels(canvas') = t
                     /\ t = extract_tight_pixels(canvas) =>
                           extract_tight_pixels(canvas') = extract_tight_pixels(canvas) ]_vars

C13_Witness ==
    /\ op = "load_pixels"
    /\ args[1] = 65
    /\ args[2] = 2
    /\ canvas.width = 65
    /\ canvas.height = 2
    /\ Len(args[3]) = 520
    /\ extract_tight_pixels(canvas) = args[3]
    /\ args[3][1] = 7

\* floor(c / zoom_scale) - pan, zoom_scale being <<num, den>>
Mapped(c, zoom_scale, pan) == ((c * zoom_scale[2]) \div zoom_scale[1]) - pan

\* the pixels of canvas c
PixelsOf(c) == (0..(c.width - 1)) \X (0..(c.height - 1))

\* pixel p of canvas c, as composed
Shown(c, p) == Get4(c.pixels, p[2] * c.stride + p[1] * 4)

\* <<img_x, img_y>> of the image pixel canvas pixel p maps to
MappedPixel(c, p) ==
    << Mapped(p[1], c.zoom_scale, c.pan_offset[1]),
       Mapped(p[2], c.zoom_scale, c.pan_offset[2]) >>

\* canvas pixel p maps inside the loaded image
MapsInside(c, p) ==
    /\ c.loaded_image_size # None
    /\ InImage(MappedPixel(c, p)[1], MappedPixel(c, p)[2],
               c.loaded_image_size[1][1], c.loaded_image_size[1][2])

\* index of the first byte of pixel q of the loaded image, in the image and in
\* the drawing layer
ImageIdx(c, q) == (q[2] * c.loaded_image_size[1][1] + q[1]) * 4

Transparent(layer) == \A i \in 1..Len(layer) : layer[i] = 0

\* C14: after paste_image_with_offset on a canvas whose drawing layer is fully
\* transparent, canvas pixel (cx, cy) is the image pixel
\* (floor(cx / zoom_scale) - pan.x, floor(cy / zoom_scale) - pan.y) when that is
\* inside the image, and opaque white otherwise; at zoom 2.0 and pan (3, -4)
\* canvas pixel (10, 10) shows image pixel (2, 9). blend_pixel, erase_circle,
\* flood_fill and composite_layers use the same mapping: they write the layer
\* pixel, and show the layer pixel, that the canvas pixel maps to.
C14_PasteMapping ==
    [][ /\ (op' = "paste" /\ Transparent(canvas'.drawing_layer)) =>
              \A p \in PixelsOf(canvas') :
                  Shown(canvas', p) =
                      IF MapsInside(canvas', p)
                      THEN Get4(args'[3], ImageIdx(canvas', MappedPixel(canvas', p)))
                      ELSE WHITE
        /\ (/\ op' = "paste"
            /\ Transparent(canvas'.drawing_layer)
            /\ canvas'.zoom_scale = <<2, 1>>
            /\ canvas'.pan_offset = <<3, -4>>
            /\ canvas'.width > 10
            /\ canvas'.height > 10
            /\ args'[1] > 2
            /\ args'[2] > 9) =>
              Shown(canvas', <<10, 10>>) = Get4(args'[3], (9 * args'[1] + 2) * 4)
        /\ op' = "paste" =>
              \A p \in PixelsOf(canvas') :
                  MapsInside(canvas', p) =>
                      LET stroke == Get4(canvas'.drawing_layer,
                                         ImageIdx(canvas', MappedPixel(canvas', p)))
                      IN  stroke[4] = 255 =>
                              SubSeq(Shown(canvas', p), 1, 3) = SubSeq(stroke, 1, 3)
        /\ (op' = "blend_pixel" /\ <<args'[1], args'[2]>> \in PixelsOf(canvas)) =>
              LET p == <<args'[1], args'[2]>>
              IN  MapsInside(canvas, p) =>
                      /\ Get4(canvas'.drawing_layer, ImageIdx(canvas, MappedPixel(canvas, p)))
                           = args'[3]
                      /\ \A i \in 1..Len(canvas.drawing_layer) :
                            (i <= ImageIdx(canvas, MappedPixel(canvas, p))
                               \/ i > ImageIdx(canvas, MappedPixel(canvas, p)) + 4) =>
                                canvas'.drawing_layer[i] = canvas.drawing_layer[i]
        /\ op' = "erase_circle" =>
              \A p \in Disc(canvas, args'[1], args'[2], args'[3]) :
                  MapsInside(canvas, p) =>
                      Get4(canvas'.drawing_layer, ImageIdx(canvas, MappedPixel(canvas, p)))
                        = <<0, 0, 0, 0>>
        /\ (/\ op' = "flood_fill"
            /\ <<args'[1], args'[2]>> \in PixelsOf(canvas)
            /\ Shown(canvas, <<args'[1], args'[2]>>) # args'[3]) =>
              LET p == <<args'[1], args'[2]>>
              IN  MapsInside(canvas, p) =>
                      Get4(canvas'.drawing_layer, ImageIdx(canvas, MappedPixel(canvas, p)))
                        = args'[3] ]_vars

C14_Witness ==
    /\ op = "paste"
    /\ canvas.width = 11
    /\ canvas.zoom_scale = <<2, 1>>
    /\ canvas.pan_offset = <<3, -4>>
    /\ canvas.drawing_layer # <<>>
    /\ Transparent(canvas.drawing_layer)
    /\ Shown(canvas, <<10, 10>>) = Get4(canvas.loaded_image_data[1], (9 * 3 + 2) * 4)
    /\ Shown(canvas, <<10, 10>>) # WHITE
    /\ Shown(canvas, <<0, 0>>) = WHITE

\* the drawing layer of c has the pixel canvas pixel p maps to
HasLayerPixel(c, p) ==
    ImageIdx(c, MappedPixel(c, p)) + 4 <= Len(c.drawing_layer)

\* the drawing-layer pixel canvas pixel p maps to
LayerPixel(c, p) == Get4(c.drawing_layer, ImageIdx(c, MappedPixel(c, p)))

\* the pixel of the loaded image canvas pixel p maps to
ImagePixel(c, p) == Get4(c.loaded_image_data[1], ImageIdx(c, MappedPixel(c, p)))

\* C15: re-panning and changing zoom_scale never modify drawing_layer; after
\* the recomposite every canvas pixel that maps to a drawing-layer pixel of
\* alpha 255 shows that pixel's RGB, and every canvas pixel that maps to a
\* drawing-layer pixel of alpha 0 shows the background image.
C15_StrokesAnchored ==
    [][ op' = "repan" =>
          /\ canvas'.drawing_layer = canvas.drawing_layer
          /\ \A p \in PixelsOf(canvas') :
                (MapsInside(canvas', p) /\ HasLayerPixel(canvas', p)) =>
                    /\ LayerPixel(canvas', p)[4] = 255 =>
                          SubSeq(Shown(canvas', p), 1, 3) = SubSeq(LayerPixel(canvas', p), 1, 3)
                    /\ LayerPixel(canvas', p)[4] = 0 =>
                          Shown(canvas', p) = ImagePixel(canvas', p) ]_vars

\* A stroke painted at zoom 1.0 is shown, after the zoom to 2.0, by two canvas
\* pixels, one of them never painted on; another pixel shows the image.
C15_Witness ==
    /\ op = "repan"
    /\ canvas.zoom_scale = <<2, 1>>
    /\ \E p \in PixelsOf(canvas), q \in PixelsOf(canvas) \ Points(canvas) :
          /\ p # q
          /\ MapsInside(canvas, p)
          /\ MappedPixel(canvas, q) = MappedPixel(canvas, p)
          /\ HasLayerPixel(canvas, p)
          /\ LayerPixel(canvas, p) = <<200, 10, 10, 255>>
          /\ Shown(canvas, p) = <<200, 10, 10, 255>>
          /\ Shown(canvas, q) = <<200, 10, 10, 255>>
    /\ \E r \in PixelsOf(canvas) :
          /\ MapsInside(canvas, r)
          /\ HasLayerPixel(canvas, r)
          /\ LayerPixel(canvas, r)[4] = 0
          /\ Shown(canvas, r) = ImagePixel(canvas, r)

\* C16: blend_pixel(x, y, color) with a color of alpha 255 and (x, y) on the
\* canvas makes the composite pixel at (x, y) exactly color and, when (x, y)
\* maps inside the loaded image, makes the drawing-layer pixel at the mapped
\* coordinate exactly color, whatever either pixel held before.
C16_BlendIdentity ==
    [][ (/\ op' = "blend_pixel"
         /\ args'[3][4] = 255
         /\ <<args'[1], args'[2]>> \in PixelsOf(canvas)) =>
           LET p == <<args'[1], args'[2]>>
           IN  /\ Shown(canvas', p) = args'[3]
               /\ MapsInside(canvas, p) =>
                     /\ HasLayerPixel(canvas', p)
                     /\ LayerPixel(canvas', p) = args'[3] ]_vars

\* color blended once over dst
Blended(color, dst) == [i \in 1..4 |-> BlendChannel(color[i], dst[i], color[4])]

\* C17: blend_pixel changes at most one composite pixel and at most one
\* drawing-layer pixel: with no loaded image, or when (x, y) maps outside the
\* image, drawing_layer is unchanged and only the composite pixel at (x, y) is
\* blended; every other composite and drawing-layer pixel is unchanged in
\* every case.
C17_BlendFrame ==
    [][ op' = "blend_pixel" =>
          LET p == <<args'[1], args'[2]>>
              color == args'[3]
          IN  /\ \A q \in PixelsOf(canvas) \ {p} : Shown(canvas', q) = Shown(canvas, q)
              /\ Len(canvas'.pixels) = Len(canvas.pixels)
              /\ p \in PixelsOf(canvas) => Shown(canvas', p) = Blended(color, Shown(canvas, p))
              /\ Len(canvas'.drawing_layer) = Len(canvas.drawing_layer)
              /\ (p \notin PixelsOf(canvas) \/ ~MapsInside(canvas, p)) =>
                    canvas'.drawing_layer = canvas.drawing_layer
              /\ (p \in PixelsOf(canvas) /\ MapsInside(canvas, p)) =>
                    \A i \in 1..Len(canvas.drawing_layer) :
                        (i <= ImageIdx(canvas, MappedPixel(canvas, p))
                           \/ i > ImageIdx(canvas, MappedPixel(canvas, p)) + 4) =>
                            canvas'.drawing_layer[i] = canvas.drawing_layer[i] ]_vars

\* A half-transparent colour blended on a pixel that maps outside the image
\* that is loaded: the layer is still all transparent
C17_Witness ==
    /\ op = "blend_pixel"
    /\ args[3] = <<0, 0, 200, 128>>
    /\ <<args[1], args[2]>> \in PixelsOf(canvas)
    /\ canvas.loaded_image_size # None
    /\ ~MapsInside(canvas, <<args[1], args[2]>>)
    /\ canvas.drawing_layer # <<>>
    /\ Transparent(canvas.drawing_layer)
    /\ Shown(canvas, <<args[1], args[2]>>) = Blended(args[3], WHITE)

\* the pixels of canvas c whose centre is within r2 / 2 of (cx2 / 2, cy2 / 2)
Within(c, cx2, cy2, r2) ==
    { p \in PixelsOf(c) :
        (2 * p[1] + 1 - cx2) * (2 * p[1] + 1 - cx2)
          + (2 * p[2] + 1 - cy2) * (2 * p[2] + 1 - cy2) <= r2 * r2 }

\* C18: stamp_circle(cx, cy, r, color) with r > 0 blends exactly the canvas
\* pixels whose centre (x + 0.5, y + 0.5) is within distance r of (cx, cy), each
\* exactly once, and leaves every other composite pixel unchanged; with r <= 0
\* no pixel, no drawing-layer byte and not the dirty flag changes.
C18_StampCoverage ==
    [][ op' = "stamp_circle" =>
          LET cx2 == args'[1]
              cy2 == args'[2]
              r2 == args'[3]
              color == args'[4]
          IN  IF r2 <= 0
              THEN /\ canvas'.pixels = canvas.pixels
                   /\ canvas'.drawing_layer = canvas.drawing_layer
                   /\ canvas'.dirty = canvas.dirty
              ELSE /\ Len(canvas'.pixels) = Len(canvas.pixels)
                   /\ \A p \in PixelsOf(canvas) :
                         Shown(canvas', p) =
                             IF p \in Within(canvas, cx2, cy2, r2)
                             THEN Blended(color, Shown(canvas, p))
                             ELSE Shown(canvas, p) ]_vars

\* The half-transparent circle of radius 2.0 about (3.5, 1.5), stamped first:
\* four pixels of the canvas are blended once, (1, 0) at distance 2.24 is not
C18_Witness ==
    /\ op = "stamp_circle"
    /\ painted = 1
    /\ args = <<7, 3, 4, <<0, 0, 200, 128>>>>
    /\ Within(canvas, 7, 3, 4) = { <<1, 1>>, <<2, 0>>, <<2, 1>>, <<2, 2>> }
    /\ \A p \in Within(canvas, 7, 3, 4) : Shown(canvas, p) = Blended(args[4], WHITE)
    /\ Shown(canvas, <<1, 0>>) = WHITE
    /\ canvas.dirty

\* the drawing-layer bytes of the pixels that the canvas pixels of set map to
LayerBytes(c, set) ==
    { i \in 1..Len(c.drawing_layer) :
        \E p \in set :
            /\ MapsInside(c, p)
            /\ i > ImageIdx(c, MappedPixel(c, p))
            /\ i <= ImageIdx(c, MappedPixel(c, p)) + 4 }

\* C19: erase_circle sets, for every canvas pixel in the disc that maps inside
\* the image, the mapped drawing-layer pixel to [0, 0, 0, 0], and sets each
\* composite pixel in the disc to the background image sample at its mapped
\* coordinate, or to opaque white when there is no image or the coordinate is
\* outside it; pixels outside the disc are unchanged in both buffers.
C19_EraseCircle ==
    [][ op' = "erase_circle" =>
          LET disc == Within(canvas, args'[1], args'[2], args'[3])
          IN  /\ Len(canvas'.pixels) = Len(canvas.pixels)
              /\ Len(canvas'.drawing_layer) = Len(canvas.drawing_layer)
              /\ \A p \in disc :
                    /\ Shown(canvas', p) =
                          IF MapsInside(canvas, p) THEN ImagePixel(canvas, p) ELSE WHITE
                    /\ MapsInside(canvas, p) =>
                          /\ HasLayerPixel(canvas', p)
                          /\ LayerPixel(canvas', p) = <<0, 0, 0, 0>>
              /\ \A q \in PixelsOf(canvas) \ disc : Shown(canvas', q) = Shown(canvas, q)
              /\ \A i \in (1..Len(canvas.drawing_layer)) \ LayerBytes(canvas, disc) :
                    canvas'.drawing_layer[i] = canvas.drawing_layer[i] ]_vars

\* The pixels of c joined to a pixel of set by a path of horizontal and
\* vertical steps through pixels of the given color
RECURSIVE Grow(_, _, _)
Grow(c, color, set) ==
    LET next == set \cup
                  { q \in PixelsOf(c) :
                      /\ Shown(c, q) = color
                      /\ \E r \in set :
                            \/ q[1] = r[1] /\ (q[2] = r[2] + 1 \/ q[2] + 1 = r[2])
                            \/ q[2] = r[2] /\ (q[1] = r[1] + 1 \/ q[1] + 1 = r[1]) }
    IN  IF next = set THEN set ELSE Grow(c, color, next)

\* the 4-connected region of the seed, in the seed's colour
Region(c, seed) == Grow(c, Shown(c, seed), {seed})

\* C20: flood_fill(seed, fill_color) with fill_color different from the seed's
\* composite colour sets to fill_color exactly the composite pixels of the
\* 4-connected region of the seed that had the seed's colour (all N * N pixels
\* of a uniformly coloured N by N canvas), writes fill_color to the mapped
\* drawing-layer pixel of each such pixel that maps inside the image, and leaves
\* every other composite pixel unchanged; when fill_color is the seed's colour,
\* or the seed is out of range, nothing changes.
C20_FloodFill ==
    [][ op' = "flood_fill" =>
          LET seed == <<args'[1], args'[2]>>
              fill_color == args'[3]
          IN  IF seed \notin PixelsOf(canvas) \/ Shown(canvas, seed) = fill_color
              THEN canvas' = canvas
              ELSE /\ Len(canvas'.pixels) = Len(canvas.pixels)
                   /\ \A q \in PixelsOf(canvas) :
                         Shown(canvas', q) =
                             IF q \in Region(canvas, seed) THEN fill_color ELSE Shown(canvas, q)
                   /\ (\A q \in PixelsOf(canvas) : Shown(canvas, q) = Shown(canvas, seed)) =>
                         (\A q \in PixelsOf(canvas) : Shown(canvas', q) = fill_color)
                   /\ \A q \in Region(canvas, seed) :
                         MapsInside(canvas, q) =>
                             /\ HasLayerPixel(canvas', q)
                             /\ LayerPixel(canvas', q) = fill_color ]_vars

\* The loop run step by step leaves what flood_fill computes in one go
FillAgrees ==
    (flood # None /\ flood[1].stack = <<>>) =>
        [canvas EXCEPT !.dirty = TRUE]
          = flood_fill(flood[1].start, args[1], args[2], args[3])

\* C21: flood_fill terminates for every canvas content, seed and fill colour:
\* each canvas pixel is marked visited at most once, and the stack is empty
\* after at most 4 * width * height + 1 pops.
C21_FloodFillTerminates ==
    /\ [](flood # None =>
            /\ flood[1].pops <= 4 * canvas.width * canvas.height + 1
            /\ \A i \in 1..Len(flood[1].marks) : flood[1].marks[i] <= 1)
    /\ (flood # None ~> flood = None)

\* The fill of the blank 3 by 3 canvas at its end: nine pixels marked and
\* filled, after 25 pops
C21_Witness ==
    /\ flood # None
    /\ flood[1].stack = <<>>
    /\ flood[1].pops = 25
    /\ \A i \in 1..9 : flood[1].visited[i] /\ flood[1].marks[i] = 1
    /\ \A p \in PixelsOf(canvas) : Shown(canvas, p) = flood[1].fill_color

\* what a full recomposite shows at canvas pixel p of c: white outside the
\* image, the image pixel under a layer pixel of alpha 0 (or none), and the
\* layer pixel's RGB composited over the image's otherwise
Recomposed(c, p) ==
    IF ~MapsInside(c, p) THEN WHITE
    ELSE IF ~HasLayerPixel(c, p) \/ LayerPixel(c, p)[4] = 0 THEN ImagePixel(c, p)
    ELSE [i \in 1..4 |->
            IF i = 4 THEN ImagePixel(c, p)[4]
            ELSE CompositeChannel(LayerPixel(c, p)[i], ImagePixel(c, p)[i], LayerPixel(c, p)[4])]

\* the pixels <<x, y>> of the loaded image of c
ImagePixels(c) ==
    (0..(c.loaded_image_size[1][1] - 1)) \X (0..(c.loaded_image_size[1][2] - 1))

\* C22: with an image loaded, after move_layer(dx, dy) the drawing-layer pixel
\* at (x + dx, y + dy) is the old pixel at (x, y) for every (x, y) whose
\* translated position is inside the image; every drawing-layer pixel that is
\* not the translation of an in-image source pixel is [0,0,0,0]; the layer
\* length is unchanged; the composite is fully recomputed with the current pan
\* offset.
C22_MoveLayer ==
    [][ (op' = "move_layer" /\ canvas.loaded_image_size # None) =>
          LET dx == args'[1]
              dy == args'[2]
          IN  /\ Len(canvas'.drawing_layer) = Len(canvas.drawing_layer)
              /\ \A q \in ImagePixels(canvas) :
                    (/\ <<q[1] + dx, q[2] + dy>> \in ImagePixels(canvas)
                     /\ ImageIdx(canvas, q) + 4 <= Len(canvas.drawing_layer)
                     /\ ImageIdx(canvas, <<q[1] + dx, q[2] + dy>>) + 4
                          <= Len(canvas.drawing_layer)) =>
                        Get4(canvas'.drawing_layer, ImageIdx(canvas, <<q[1] + dx, q[2] + dy>>))
                          = Get4(canvas.drawing_layer, ImageIdx(canvas, q))
              /\ \A q \in ImagePixels(canvas) :
                    (/\ <<q[1] - dx, q[2] - dy>> \notin ImagePixels(canvas)
                     /\ ImageIdx(canvas, q) + 4 <= Len(canvas.drawing_layer)) =>
                        Get4(canvas'.drawing_layer, ImageIdx(canvas, q)) = <<0, 0, 0, 0>>
              /\ canvas'.pan_offset = canvas.pan_offset
              /\ canvas'.zoom_scale = canvas.zoom_scale
              /\ \A p \in PixelsOf(canvas') : Shown(canvas', p) = Recomposed(canvas', p) ]_vars

\* The stroke on the middle pixel and its four neighbours was moved one pixel
\* right on the image panned right: its right arm left the image, the left
\* column of the layer is empty, and the canvas shows the moved stroke.
C22_Witness ==
    /\ op = "move_layer"
    /\ args = <<1, 0>>
    /\ canvas.loaded_image_size # None
    /\ canvas.pan_offset = <<1, 0>>
    /\ Len(canvas.drawing_layer) = 36
    /\ Get4(canvas.drawing_layer, ImageIdx(canvas, <<2, 1>>)) = <<200, 10, 10, 255>>
    /\ Get4(canvas.drawing_layer, ImageIdx(canvas, <<1, 1>>)) = <<200, 10, 10, 255>>
    /\ \A y \in 0..2 : Get4(canvas.drawing_layer, ImageIdx(canvas, <<0, y>>)) = <<0, 0, 0, 0>>
    /\ Get4(canvas.drawing_layer, ImageIdx(canvas, <<2, 0>>)) = <<200, 10, 10, 255>>
    /\ \E p \in PixelsOf(canvas) :
          MapsInside(canvas, p) /\ SubSeq(Shown(canvas, p), 1, 3) = <<200, 10, 10>>

\* the four filters of the drawing layer
Filters == {"filter_invert", "filter_grayscale", "filter_brightness_contrast", "filter_blur"}

\* the indices of the first bytes of the pixels the drawing layer of c holds
LayerIdxs(c) == {i \in 0..(Len(c.drawing_layer) - 4) : i % 4 = 0}

\* C23: filter_invert, filter_grayscale, filter_brightness_contrast and
\* filter_blur never change any channel of a drawing-layer pixel whose alpha
\* was 0 before the call, and never change loaded_image_data.
C23_FilterMasking ==
    [][ op' \in Filters =>
          /\ canvas'.loaded_image_data = canvas.loaded_image_data
          /\ Len(canvas'.drawing_layer) = Len(canvas.drawing_layer)
          /\ \A i \in LayerIdxs(canvas) :
                Get4(canvas.drawing_layer, i)[4] = 0 =>
                    Get4(canvas'.drawing_layer, i) = Get4(canvas.drawing_layer, i) ]_vars

\* A blur has spread a red stroke over its own pixels only: a painted pixel is
\* now semi-transparent, and a pixel next to it that was never painted is
\* still [0,0,0,0] over the image.
C23_Witness ==
    /\ op = "filter_blur"
    /\ args[1] > 0
    /\ canvas.loaded_image_data # None
    /\ \E i \in LayerIdxs(canvas), k \in LayerIdxs(canvas) :
          /\ Get4(canvas.drawing_layer, i)[4] \in 1..254
          /\ Get4(canvas.drawing_layer, i)[1] > 0
          /\ k \in {i - 4, i + 4}
          /\ Get4(canvas.drawing_layer, k) = <<0, 0, 0, 0>>

\* the pixels of the image of c within radius of pixel q in both directions:
\* the square window of side 2 * radius + 1 around q, clipped to the image
ClippedWindow(c, q, radius) ==
    { w \in ImagePixels(c) :
        /\ w[1] - q[1] \in (-radius)..radius
        /\ w[2] - q[2] \in (-radius)..radius }

Units(v) ==
    IF v[1] = 0 \/ v[2] > 46 THEN 0
    ELSE IF v[2] >= 16 THEN v[1] \div 2^(v[2] - 16)
    ELSE v[1] * 2^(16 - v[2])

\* the f32 value v is n / d pixels, to 2^-16 pixel
Close(v, n, d) ==
    /\ Units(v) * d - n * 65536 <= d
    /\ n * 65536 - Units(v) * d <= d

\* C25: Brush::stroke(from, to) stamps exactly steps + 1 circles with
\* steps = max(1, ceil(distance(from, to))), the first centred at from, the
\* last at to, and consecutive centres equally spaced at
\* distance(from, to) / steps, which is never more than 1 canvas unit. The
\* centres between the first and the last are compared to 2^-16 pixel.
C25_StrokeSpacing ==
    [][ op' = "stroke" =>
          LET from == args'[1]
              to == args'[2]
              centres == args'[3]
              dx2 == to[1] - from[1]
              dy2 == to[2] - from[2]
              n == Len(centres) - 1
          IN  /\ n >= 1
              /\ 4 * n * n >= dx2 * dx2 + dy2 * dy2
              /\ n = 1 \/ 4 * (n - 1) * (n - 1) < dx2 * dx2 + dy2 * dy2
              /\ centres[1] = <<F32Half(from[1]), F32Half(from[2])>>
              /\ centres[n + 1] = <<F32Half(to[1]), F32Half(to[2])>>
              /\ \A i \in 0..n :
                    /\ Close(centres[i + 1][1], from[1] * n + i * dx2, 2 * n)
                    /\ Close(centres[i + 1][2], from[2] * n + i * dy2, 2 * n) ]_vars

\* the u32 coordinates <<x, y>> are not those of a pixel of c
OutOfRange(c, x, y) ==
    \/ x[1] > 0
    \/ x[2] >= c.width
    \/ y[1] > 0
    \/ y[2] >= c.height

\* canvas coordinate v (a whole number) is within the n columns or rows that
\* start at the u32 a, n a u32: a <= v < a + n, the sum not wrapped
U32Spans(a, n, v) ==
    /\ a[1] = 0
    /\ a[2] <= v
    /\ n[1] > 0 \/ v - a[2] < n[2]

\* C26: out-of-range coordinates never fault and never change state:
\* set_pixel, blend_pixel and flood_fill with x >= width or y >= height leave
\* pixels, drawing_layer and dirty unchanged, get_pixel returns none, and
\* fill_rect writes only the part of the rectangle inside the canvas (nothing
\* when the rectangle lies wholly outside or has zero width or height), for
\* all u32 arguments.
C26_OutOfRange ==
    /\ [](~panicked)
    /\ [][ /\ (/\ op' \in {"set_pixel", "blend_pixel", "flood_fill"}
               /\ OutOfRange(canvas, args'[1], args'[2])) =>
                 /\ canvas'.pixels = canvas.pixels
                 /\ canvas'.drawing_layer = canvas.drawing_layer
                 /\ canvas'.dirty = canvas.dirty
           /\ (op' = "get_pixel" /\ OutOfRange(canvas, args'[1], args'[2])) =>
                 ret' = None
           /\ (op' = "fill_rect" /\ Len(args') = 5) =>
                 /\ \A p \in PixelsOf(canvas) :
                       Shown(canvas', p) =
                           IF /\ U32Spans(args'[1], args'[3], p[1])
                              /\ U32Spans(args'[2], args'[4], p[2])
                           THEN args'[5]
                           ELSE Shown(canvas, p)
                 /\ Len(canvas'.pixels) = Len(canvas.pixels)
                 /\ canvas'.drawing_layer = canvas.drawing_layer ]_vars

-----------------------------------------------------------------------------
(* Claims about project files *)

\* C27: whenever save_project(project, layers, folder) succeeds, load_project
\* on the same folder succeeds and returns a project with the same name, width
\* and height, and exactly as many layers as were saved, each with the width
\* and height of the corresponding saved layer.
C27_SaveLoadRoundTrip ==
    (op = "save_project" /\ ret = "Ok") =>
        LET project == args[1]
            layers == args[2]
            loaded == load_project(folder)
        IN  /\ loaded[1] = "Ok"
            /\ loaded[2].name = project.name
            /\ loaded[2].width = project.width
            /\ loaded[2].height = project.height
            /\ Len(loaded[3]) = Len(layers)
            /\ \A i \in 1..Len(layers) :
                   /\ loaded[3][i].width = layers[i].width
                   /\ loaded[3][i].height = layers[i].height

-----------------------------------------------------------------------------
(* Claims about the two buffers *)

\* the red, green and blue bytes of every pixel of the composite of c
CompositeRgb(c) ==
    [ p \in (0..(c.width - 1)) \X (0..(c.height - 1)) |-> SubSeq(Shown(c, p), 1, 3) ]

\* C28: the composite buffer mirrors the drawing layer: with an image loaded,
\* after blend_pixel, stamp_circle, erase_circle and flood_fill calls at any
\* zoom_scale and pan_offset, a full recomposite (repan_image with the current
\* pan offset) leaves the RGB channels of every composite pixel unchanged.
C28_CompositeMirrorsLayer ==
    (canvas.loaded_image_size # None
        /\ op \in {"blend_pixel", "stamp_circle", "erase_circle", "flood_fill"}) =>
        CompositeRgb(repan_image(canvas, canvas.pan_offset[1], canvas.pan_offset[2]))
            = CompositeRgb(canvas)

-----------------------------------------------------------------------------
(* Claims about the bounds of History *)

\* C29: in every state reachable by any interleaving of push, undo and redo,
\* current <= states.len(), and undo and redo only ever read states at an index
\* strictly below states.len(): the snapshot a successful undo or redo reads is
\* the one at the new current, and no call panics.
C29_HistoryInBounds ==
    /\ current <= Len(states)
    /\ op \in {"undo", "redo"} =>
           /\ ~panicked
           /\ ret = TRUE => current < Len(states)

\* an undo that succeeds right after a push into a full history, where current
\* was states.len()
C29_Witness ==
    /\ op = "undo"
    /\ ret = TRUE
    /\ Len(states) = MAX_HISTORY
    /\ current = MAX_HISTORY - 1
    /\ ~panicked

\* C30: undo is reversible: a successful undo() is immediately followed by
\* can_redo() == true, and the redo() that follows succeeds and returns current
\* to its value before the undo.
C30_UndoReversible ==
    [][ (op' = "undo" /\ ret' = TRUE) =>
            /\ current' + 1 < Len(states')
            /\ current' + 1 = current ]_vars

====
